---- MODULE Spec2Model ----
(***************************************************************************)
(* Media lifecycle engine of rewinder: the catalog (media, marks,          *)
(* persistent_media, users), the library on disk, and the handlers that    *)
(* move items between active / trashed / permanent / gone.                 *)
(*                                                                         *)
(* A media row is keyed by its path: the path column is UNIQUE and no      *)
(* statement ever changes it, so the row id and the path identify the      *)
(* same row.  Paths are sequences of components.  The disk is the set of   *)
(* entries (directories and files) that exist.                             *)
(***************************************************************************)
EXTENDS Integers, Sequences, FiniteSets, TLC

VARIABLES
    users,        \* ids of the rows of table users
    media,        \* table media: path |-> [status, trashed_at]
    marks,        \* table marks: set of <<user_id, media path>>
    owner,        \* table persistent_media: media path |-> user_id
    fs,           \* entries that exist on disk
    now,          \* the clock, in days
    dry_run,      \* AppState.dry_run
    media_dirs,   \* AppConfig.media_dirs, the configured roots in order
    sessions,     \* table sessions: the rows (user_id, expires_at)
    queue,        \* watcher events sent on the channel and not yet received
    ext,          \* how many changes the outside world has made to the disk
    inflight,     \* user |-> the mark request of the user that is between two awaits
    response      \* what the last request handler returned

vars == <<users, media, marks, owner, fs, now, dry_run, media_dirs, sessions, queue, ext,
          inflight, response>>

(***************************************************************************)
(* Bounds of the model.                                                    *)
(***************************************************************************)
MaxUsers == 2
MaxTime == 1
MaxQueue == 2
MaxExt == 3

\* AppConfig.grace_period_days of the modelled configuration
grace_period_days == 1

(***************************************************************************)
(* Option<T>: None, or Some(x).                                            *)
(***************************************************************************)
None == <<>>
Some(x) == <<x>>

(***************************************************************************)
(* std::path                                                               *)
(***************************************************************************)
StartsWith(p, d) == Len(d) <= Len(p) /\ SubSeq(p, 1, Len(d)) = d
StripPrefix(p, d) == SubSeq(p, Len(d) + 1, Len(p))
Parent(p) == SubSeq(p, 1, Len(p) - 1)
FileName(p) == p[Len(p)]
Join(d, rel) == d \o rel

(***************************************************************************)
(* The library used by the model: one root and, directly under it, a show  *)
(* directory with one season directory.  A directory directly under the    *)
(* root that has no season directory is catalogued as a movie, so the show *)
(* directory is a movie to the scanner whenever its season is elsewhere.   *)
(***************************************************************************)
MediaRoot == <<"media">>
ShowPath == <<"media", "Show">>
SeasonPath == <<"media", "Show", "Season 1">>
VideoFile == "video.mkv"

\* the ids a request can name: every path a scan can catalog
MediaIds == {ShowPath, SeasonPath}
UserIds == 1..MaxUsers
AdminId == 1

(***************************************************************************)
(* std::fs                                                                 *)
(***************************************************************************)
Exists(f, p) == p \in f
IsDir(f, p) == p \in f /\ FileName(p) # VideoFile
Under(f, p) == {e \in f : StartsWith(e, p)}
Children(f, p) == {e \in f : Len(e) = Len(p) + 1 /\ StartsWith(e, p)}
create_dir_all(f, p) == f \cup {SubSeq(p, 1, k) : k \in 1..Len(p)}
remove_dir_all(f, p) == f \ Under(f, p)

\* rename(2) on a directory: the source must exist, the destination's parent
\* must exist, and an existing destination must be an empty directory
CanRename(f, src, dst) ==
    /\ src \in f
    /\ (Len(dst) = 1 \/ Parent(dst) \in f)
    /\ Under(f, dst) \subseteq {dst}

rename(f, src, dst) ==
    (f \ Under(f, src)) \cup {Join(dst, StripPrefix(e, src)) : e \in Under(f, src)}

\* trash::move_path and persistent::move_path, source and destination on one
\* device: the move is the rename, and fails when the rename fails
\* a move whose refusal goes unnoticed
move_path_never_refused(f, src, dst) == TRUE

move_path_ok(f, src, dst) == CanRename(f, src, dst)
\* a move that copies and forgets to remove the source
move_path_copy(f, src, dst) == f \cup {Join(dst, StripPrefix(e, src)) : e \in Under(f, src)}
move_path(f, src, dst) == rename(f, src, dst)

(***************************************************************************)
(* AppConfig: derived sibling directories and root resolution.             *)
(***************************************************************************)
trash_dir_for_media_dir(d) ==
    IF Len(d) = 0 THEN None
    ELSE Some(Join(Parent(d), <<FileName(d) \o "_trash">>))

permanent_dir_for_media_dir(d) ==
    IF Len(d) = 0 THEN None
    ELSE Some(Join(Parent(d), <<FileName(d) \o "_permanent">>))

\* a resolution that takes the first root that is a prefix of the path
best_media_dir_first_match(dirs, p) ==
    LET cand == {i \in 1..Len(dirs) : StartsWith(p, dirs[i])}
    IN  IF cand = {} THEN None
        ELSE Some(dirs[CHOOSE i \in cand : \A j \in cand : i <= j])

\* .filter(starts_with).max_by_key(components().count()): the last of the
\* roots of greatest length among those that are a prefix of the path
best_media_dir(dirs, p) ==
    LET cand == {i \in 1..Len(dirs) : StartsWith(p, dirs[i])}
    IN  IF cand = {} THEN None
        ELSE LET best == CHOOSE i \in cand :
                     \A j \in cand : \/ Len(dirs[j]) < Len(dirs[i])
                                     \/ (Len(dirs[j]) = Len(dirs[i]) /\ j <= i)
             IN  Some(dirs[best])

\* a trash path that keeps only the last component of the item's path
trash_path_for_flattened(md, td, p) ==
    IF StartsWith(p, md) THEN Some(Join(td, <<FileName(p)>>)) ELSE None

trash_path_for(md, td, p) ==
    IF StartsWith(p, md) THEN Some(Join(td, StripPrefix(p, md))) ELSE None

permanent_path_for(md, pd, p) ==
    IF StartsWith(p, md) THEN Some(Join(pd, StripPrefix(p, md))) ELSE None

\* the trash / permanent location of an item under the configured roots
TrashLocation(dirs, p) ==
    LET md == best_media_dir(dirs, p)
    IN  IF md = None THEN None
        ELSE LET td == trash_dir_for_media_dir(md[1])
             IN  IF td = None THEN None ELSE trash_path_for(md[1], td[1], p)

PermanentLocation(dirs, p) ==
    LET md == best_media_dir(dirs, p)
    IN  IF md = None THEN None
        ELSE LET pd == permanent_dir_for_media_dir(md[1])
             IN  IF pd = None THEN None ELSE permanent_path_for(md[1], pd[1], p)

(***************************************************************************)
(* models::media                                                           *)
(***************************************************************************)
get_by_id(m, id) == IF id \in DOMAIN m THEN Some(m[id]) ELSE None

NewRow == [status |-> "active", trashed_at |-> None]

\* INSERT ... ON CONFLICT(path) DO UPDATE SET last_seen, status = 'active', size
upsert(m, p) ==
    IF p \in DOMAIN m
    THEN [m EXCEPT ![p].status = "active"]
    ELSE [q \in DOMAIN m \cup {p} |-> IF q = p THEN NewRow ELSE m[q]]

\* the media table with its other columns.  A row has the AUTOINCREMENT id
\* its INSERT gave it: the season is inserted by the first scan, the show
\* directory when a later scan first finds it without a season.
rowid(p) == IF p = SeasonPath THEN 1 ELSE 2
TableOf(m) ==
    {[id |-> rowid(p), path |-> p, size_bytes |-> 0, status |-> m[p].status,
      trashed_at |-> m[p].trashed_at, last_seen |-> 0] : p \in DOMAIN m}

\* upsert on that table, with the id it returns.  last_rowid is what
\* sqlite3_last_insert_rowid holds on the pooled connection before the
\* statement: 0 on a connection that has inserted nothing, else the rowid of
\* its latest INSERT; the DO UPDATE branch does not set it.
upsert_with_id(t, path, size, clock, last_rowid) ==
    LET hit == {r \in t : r.path = path}
    IN  IF hit = {}
        THEN LET new == 1 + Cardinality(t)
             IN  [table |-> t \cup {[id |-> new, path |-> path, size_bytes |-> size,
                                     status |-> "active", trashed_at |-> None,
                                     last_seen |-> clock]},
                  id |-> new]
        ELSE [table |-> (t \ hit) \cup {[r EXCEPT !.last_seen = clock, !.status = "active",
                                                  !.size_bytes = size] : r \in hit},
              id |-> IF last_rowid # 0 THEN last_rowid
                     ELSE (CHOOSE r \in hit : TRUE).id]

upsert_all(m, ps) ==
    [q \in DOMAIN m \cup ps |-> IF q \in ps THEN upsert(m, q)[q] ELSE m[q]]

\* a gone-marking step that deletes the rows it should mark
mark_gone_except_deleting(m, seen) ==
    [p \in {q \in DOMAIN m : m[q].status # "active" \/ q \in seen} |-> m[p]]

\* a gone-marking step without its test of the status
mark_gone_except_any_status(m, seen) ==
    [p \in DOMAIN m |-> IF p \notin seen THEN [m[p] EXCEPT !.status = "gone"] ELSE m[p]]

mark_gone_except(m, seen) ==
    IF seen = {}
    THEN [p \in DOMAIN m |->
            IF m[p].status = "active" THEN [m[p] EXCEPT !.status = "gone"] ELSE m[p]]
    ELSE [p \in DOMAIN m |->
            IF m[p].status = "active" /\ p \notin seen
            THEN [m[p] EXCEPT !.status = "gone"] ELSE m[p]]

mark_gone_by_path_any_status(m, p) ==
    [q \in DOMAIN m |-> IF q = p THEN [m[q] EXCEPT !.status = "gone"] ELSE m[q]]

mark_gone_by_path(m, p) ==
    [q \in DOMAIN m |->
        IF q = p /\ m[q].status = "active" THEN [m[q] EXCEPT !.status = "gone"] ELSE m[q]]

\* set_trashed that writes only over an active row
set_trashed_if_active(m, id, t) ==
    [q \in DOMAIN m |->
        IF q = id /\ m[q].status = "active"
        THEN [status |-> "trashed", trashed_at |-> Some(t)] ELSE m[q]]

set_trashed(m, id, t) ==
    [q \in DOMAIN m |->
        IF q = id THEN [status |-> "trashed", trashed_at |-> Some(t)] ELSE m[q]]

set_active(m, id) ==
    [q \in DOMAIN m |->
        IF q = id THEN [status |-> "active", trashed_at |-> None] ELSE m[q]]

set_permanent(m, id) ==
    [q \in DOMAIN m |->
        IF q = id THEN [status |-> "permanent", trashed_at |-> None] ELSE m[q]]

set_gone(m, id) ==
    [q \in DOMAIN m |-> IF q = id THEN [m[q] EXCEPT !.status = "gone"] ELSE m[q]]

list_trashed(m) == {p \in DOMAIN m : m[p].status = "trashed"}

\* trashed_at <= datetime('now', -grace days); a NULL trashed_at never compares
list_expired_trash(m, t, grace) ==
    {p \in DOMAIN m : /\ m[p].status = "trashed"
                      /\ m[p].trashed_at # None
                      /\ m[p].trashed_at[1] <= t - grace}

cleanup_gone_marks(m, mk) ==
    {x \in mk : ~(x[2] \in DOMAIN m /\ m[x[2]].status = "gone")}

(***************************************************************************)
(* models::mark                                                            *)
(***************************************************************************)
mark(mk, u, id) == mk \cup {<<u, id>>}
\* unmark without the user in its WHERE clause: every mark on the item goes
unmark_of_every_user(mk, u, id) == {x \in mk : x[2] # id}

unmark(mk, u, id) == mk \ {<<u, id>>}
mark_count(mk, id) == Cardinality({x \in mk : x[2] = id})
all_users_marked(us, mk, id) == Cardinality({u \in us : <<u, id>> \notin mk}) = 0
\* clear_marks without its WHERE clause: every mark row is deleted
clear_marks_of_all(mk, id) == {}
\* clear_marks that deletes nothing
clear_marks_of_none(mk, id) == mk
clear_marks(mk, id) == {x \in mk : x[2] # id}

\* the query with a HAVING clause no row satisfies
media_ids_with_all_marked_never(us, m, mk) == {}

media_ids_with_all_marked(us, m, mk) ==
    {id \in DOMAIN m : /\ m[id].status = "active"
                       /\ ~ \E u \in us : <<u, id>> \notin mk}

(***************************************************************************)
(* models::persistent                                                      *)
(***************************************************************************)
set_owner(o, id, u) == [q \in DOMAIN o \cup {id} |-> IF q = id THEN u ELSE o[q]]
clear_owner(o, id) == [q \in DOMAIN o \ {id} |-> o[q]]
get_owner(o, id) == IF id \in DOMAIN o THEN Some(o[id]) ELSE None
list_media_ids_by_owner(o, u) == {id \in DOMAIN o : o[id] = u}

(***************************************************************************)
(* models::user.  The rows of marks and persistent_media that reference a  *)
(* deleted user go with it (foreign keys of the schema).                   *)
(***************************************************************************)
user_create(us, u) == us \cup {u}
user_delete(us, u) == us \ {u}
cascade_marks(mk, u) == {x \in mk : x[1] # u}
cascade_owner(o, u) == [q \in {r \in DOMAIN o : o[r] # u} |-> o[q]]

(***************************************************************************)
(* auth::session                                                           *)
(***************************************************************************)
\* DEFAULT_SESSION_TTL_HOURS, in days of the model's clock
session_ttl_days == 1
session_create(ss, u, t) == ss \cup {[user_id |-> u, expires_at |-> t + session_ttl_days]}
\* DELETE FROM sessions WHERE expires_at <= datetime('now')
session_cleanup_expired(ss, t) == {x \in ss : x.expires_at > t}

(***************************************************************************)
(* The engine works on a snapshot of the catalog and the disk, and leaves  *)
(* its outcome in res.                                                     *)
(***************************************************************************)
Cur == [users |-> users, media |-> media, marks |-> marks, owner |-> owner,
        fs |-> fs, res |-> "ok"]
Ok(s) == [s EXCEPT !.res = "ok"]
Fail(s) == [s EXCEPT !.res = "err"]

Commit(s) ==
    /\ users' = s.users
    /\ media' = s.media
    /\ marks' = s.marks
    /\ owner' = s.owner
    /\ fs' = s.fs

(***************************************************************************)
(* trash                                                                   *)
(***************************************************************************)
\* move_to_trash without its test of the dry-run flag: the move is always made
move_to_trash_always_moving(s, id) ==
    IF get_by_id(s.media, id) = None THEN Fail(s)
    ELSE LET dest == TrashLocation(media_dirs, id)
         IN  IF dest = None THEN Fail(s)
             ELSE LET f1 == create_dir_all(s.fs, Parent(dest[1]))
                  IN  IF ~move_path_ok(f1, id, dest[1])
                      THEN Fail([s EXCEPT !.fs = f1])
                      ELSE Ok([s EXCEPT !.fs = move_path(f1, id, dest[1]),
                                        !.media = set_trashed(@, id, now)])

move_to_trash(s, id) ==
    IF get_by_id(s.media, id) = None THEN Fail(s)
    ELSE LET dest == TrashLocation(media_dirs, id)
         IN  IF dest = None THEN Fail(s)
             ELSE IF dry_run
             THEN Ok([s EXCEPT !.media = set_trashed(@, id, now)])
             ELSE LET f1 == create_dir_all(s.fs, Parent(dest[1]))
                  IN  IF ~move_path_ok(f1, id, dest[1])
                      THEN Fail([s EXCEPT !.fs = f1])
                      ELSE Ok([s EXCEPT !.fs = move_path(f1, id, dest[1]),
                                        !.media = set_trashed(@, id, now)])

rescue_from_trash(s, id) ==
    IF get_by_id(s.media, id) = None THEN Fail(s)
    ELSE LET loc == TrashLocation(media_dirs, id)
             done(f) == Ok([s EXCEPT !.fs = f,
                                     !.media = set_active(@, id),
                                     !.marks = clear_marks(@, id)])
         IN  IF loc = None THEN Fail(s)
             ELSE IF dry_run THEN done(s.fs)
             ELSE IF Exists(s.fs, loc[1])
             THEN LET f1 == create_dir_all(s.fs, Parent(id))
                  IN  IF ~move_path_ok(f1, loc[1], id)
                      THEN Fail([s EXCEPT !.fs = f1])
                      ELSE done(move_path(f1, loc[1], id))
             ELSE Fail(s)

\* check_and_trash without the move: the quorum is seen and nothing is trashed
check_and_trash_no_move(s, id) == Ok(s)

check_and_trash(s, id) ==
    IF all_users_marked(s.users, s.marks, id)
    THEN move_to_trash(s, id)
    ELSE Ok(s)

(***************************************************************************)
(* persistent                                                              *)
(***************************************************************************)
move_to_permanent(s, id, u) ==
    LET item == get_by_id(s.media, id)
    IN  IF item = None THEN Fail(s)
        ELSE IF item[1].status # "active" THEN Fail(s)
        ELSE LET dest == PermanentLocation(media_dirs, id)
                 done(f) == Ok([s EXCEPT !.fs = f,
                                         !.media = set_permanent(@, id),
                                         !.owner = set_owner(@, id, u),
                                         !.marks = clear_marks(@, id)])
             IN  IF dest = None THEN Fail(s)
                 ELSE IF dry_run THEN done(s.fs)
                 ELSE LET f1 == create_dir_all(s.fs, Parent(dest[1]))
                      IN  IF ~move_path_ok(f1, id, dest[1])
                          THEN Fail([s EXCEPT !.fs = f1])
                          ELSE done(move_path(f1, id, dest[1]))

restore_from_permanent_unchecked(s, id) ==
    LET item == get_by_id(s.media, id)
    IN  IF item = None THEN Fail(s)
        ELSE IF item[1].status # "permanent" THEN Ok(s)
        ELSE LET src == PermanentLocation(media_dirs, id)
                 done(f) == Ok([s EXCEPT !.fs = f,
                                         !.media = set_active(@, id),
                                         !.owner = clear_owner(@, id),
                                         !.marks = clear_marks(@, id)])
             IN  IF src = None THEN Fail(s)
                 ELSE IF dry_run THEN done(s.fs)
                 ELSE IF Exists(s.fs, src[1])
                 THEN LET f1 == create_dir_all(s.fs, Parent(id))
                      IN  IF ~move_path_ok(f1, src[1], id)
                          THEN Fail([s EXCEPT !.fs = f1])
                          ELSE done(move_path(f1, src[1], id))
                 ELSE Fail(s)

restore_from_permanent(s, id, u) ==
    LET item == get_by_id(s.media, id)
        own == get_owner(s.owner, id)
    IN  IF item = None THEN Fail(s)
        ELSE IF item[1].status # "permanent" THEN Fail(s)
        ELSE IF own = None THEN Fail(s)
        ELSE IF own[1] # u THEN Fail(s)
        ELSE restore_from_permanent_unchecked(s, id)

(***************************************************************************)
(* Loops over query results.  A SELECT without ORDER BY returns its rows   *)
(* in an order the engine does not fix: order is any permutation of the    *)
(* ids, and a loop visits its rows in that order.                          *)
(***************************************************************************)
IdOrder == <<ShowPath, SeasonPath>>
Reverse(q) == [i \in 1..Len(q) |-> q[Len(q) + 1 - i]]
Orders == {IdOrder, Reverse(IdOrder)}
SeqOf(ids, order) == SelectSeq(order, LAMBDA x : x \in ids)

(***************************************************************************)
(* trash: the reconciler's two clean-ups                                   *)
(***************************************************************************)
\* del[id]: whether std::fs::remove_dir_all on the trash copy of id succeeds; a
\* refused deletion is logged and the loop continues with the next item
Deletions == [MediaIds -> BOOLEAN]

\* a purge that sets the item to gone whether or not the deletion was refused
RECURSIVE purge_each_without_continue(_, _, _)
purge_each_without_continue(s, ids, del) ==
    IF ids = <<>> THEN s
    ELSE LET id == Head(ids)
             loc == TrashLocation(media_dirs, id)
             gone(f) == [s EXCEPT !.fs = f, !.media = set_gone(@, id)]
         IN  IF loc = None THEN purge_each_without_continue(s, Tail(ids), del)
             ELSE IF ~dry_run /\ Exists(s.fs, loc[1]) /\ del[id]
             THEN purge_each_without_continue(gone(remove_dir_all(s.fs, loc[1])), Tail(ids), del)
             ELSE purge_each_without_continue(gone(s.fs), Tail(ids), del)

RECURSIVE purge_each(_, _, _)
purge_each(s, ids, del) ==
    IF ids = <<>> THEN s
    ELSE LET id == Head(ids)
             loc == TrashLocation(media_dirs, id)
             gone(f) == [s EXCEPT !.fs = f, !.media = set_gone(@, id)]
         IN  IF loc = None THEN purge_each(s, Tail(ids), del)
             ELSE IF dry_run THEN purge_each(gone(s.fs), Tail(ids), del)
             ELSE IF Exists(s.fs, loc[1])
             THEN IF del[id]
                  THEN purge_each(gone(remove_dir_all(s.fs, loc[1])), Tail(ids), del)
                  ELSE purge_each(s, Tail(ids), del)
             ELSE purge_each(gone(s.fs), Tail(ids), del)

cleanup_expired(s, order, del) ==
    Ok(purge_each(s, SeqOf(list_expired_trash(s.media, now, grace_period_days), order), del))

\* a missing-trash check that sets the item to gone and keeps its marks
cleanup_missing_trash_keeping_marks(s) ==
    LET missing == {id \in list_trashed(s.media) :
                       /\ TrashLocation(media_dirs, id) # None
                       /\ ~Exists(s.fs, TrashLocation(media_dirs, id)[1])}
    IN  Ok([s EXCEPT
              !.media = [q \in DOMAIN @ |->
                            IF q \in missing THEN set_gone(@, q)[q] ELSE @[q]]])

cleanup_missing_trash(s) ==
    LET missing == {id \in list_trashed(s.media) :
                       /\ TrashLocation(media_dirs, id) # None
                       /\ ~Exists(s.fs, TrashLocation(media_dirs, id)[1])}
    IN  Ok([s EXCEPT
              !.media = [q \in DOMAIN @ |->
                            IF q \in missing THEN set_gone(@, q)[q] ELSE @[q]],
              !.marks = {x \in @ : x[2] \notin missing}])

(***************************************************************************)
(* scanner                                                                 *)
(***************************************************************************)
\* "season N" / "season_N" / "sNN", on the directory names of the library
parse_season_number(name) == IF name = "Season 1" THEN Some(1) ELSE None

find_seasons(f, dir) ==
    {c \in Children(f, dir) : IsDir(f, c) /\ parse_season_number(FileName(c)) # None}

\* readable is FALSE when read_dir of the root fails
scan_directory(s, root, readable) ==
    IF ~readable \/ ~IsDir(s.fs, root)
    THEN [s |-> s, ok |-> FALSE, seen |-> {}]
    ELSE LET dirs == {d \in Children(s.fs, root) : IsDir(s.fs, d)}
             seen == UNION {IF find_seasons(s.fs, d) # {}
                            THEN find_seasons(s.fs, d) ELSE {d} : d \in dirs}
         IN  [s |-> [s EXCEPT !.media = upsert_all(@, seen)], ok |-> TRUE, seen |-> seen]

RECURSIVE scan_roots(_, _, _, _)
scan_roots(s, dirs, rd, i) ==
    IF i > Len(dirs) THEN [s |-> s, seen |-> {}]
    ELSE LET r == scan_directory(s, dirs[i], rd[i])
             rest == scan_roots(r.s, dirs, rd, i + 1)
         IN  [s |-> rest.s, seen |-> (IF r.ok THEN r.seen ELSE {}) \cup rest.seen]

full_scan(s, rd) ==
    LET r == scan_roots(s, media_dirs, rd, 1)
    IN  Ok([r.s EXCEPT !.media = mark_gone_except(@, r.seen)])

(***************************************************************************)
(* routes::admin::delete_user                                              *)
(***************************************************************************)
RECURSIVE restore_each(_, _)
restore_each(s, ids) ==
    IF ids = <<>> THEN Ok(s)
    ELSE LET r == restore_from_permanent_unchecked(s, Head(ids))
         IN  IF r.res # "ok" THEN r ELSE restore_each(r, Tail(ids))

RECURSIVE trash_each(_, _)
trash_each(s, ids) ==
    IF ids = <<>> THEN Ok(s)
    ELSE trash_each(check_and_trash(s, Head(ids)), Tail(ids))

delete_user(s, id, order) ==
    LET r1 == restore_each(s, SeqOf(list_media_ids_by_owner(s.owner, id), order))
    IN  IF r1.res # "ok" THEN r1
        ELSE LET s2 == [r1 EXCEPT !.users = user_delete(@, id),
                                  !.marks = cascade_marks(@, id),
                                  !.owner = cascade_owner(@, id)]
                 eligible == media_ids_with_all_marked(s2.users, s2.media, s2.marks)
             IN  trash_each(s2, SeqOf(eligible, order))

(***************************************************************************)
(* Request handlers.  A request carries the session of an existing user;   *)
(* the admin routes need the session of the admin.                         *)
(***************************************************************************)
\* what the handler answers: its own page on success, AppError::Internal when
\* the engine returned an error
Respond(done, r) == response' = IF r.res = "ok" THEN done ELSE "internal"

\* routes::movies::mark_movie, routes::tv::mark_tv
mark_movie(u, id) ==
    /\ u \in users
    /\ LET m == get_by_id(media, id)
       IN  IF m = None \/ m[1].status # "active"
           THEN response' = "not_found" /\ UNCHANGED <<users, media, marks, owner, fs>>
           ELSE LET r == check_and_trash([Cur EXCEPT !.marks = mark(@, u, id)], id)
                IN  Commit(r) /\ Respond("marked", r)
    /\ UNCHANGED <<now, dry_run, media_dirs, sessions, inflight, queue, ext>>

\* unmark_movie without the check of the status
unmark_movie_any_status(u, id) ==
    /\ u \in users
    /\ response' = "unmarked"
    /\ marks' = unmark(marks, u, id)
    /\ UNCHANGED <<users, media, owner, fs, now, dry_run, media_dirs, sessions, inflight, queue, ext>>

\* routes::movies::unmark_movie, routes::tv::unmark_tv
unmark_movie(u, id) ==
    /\ u \in users
    /\ LET m == get_by_id(media, id)
       IN  IF m = None \/ m[1].status # "active"
           THEN response' = "not_found" /\ UNCHANGED marks
           ELSE response' = "unmarked" /\ marks' = unmark(marks, u, id)
    /\ UNCHANGED <<users, media, owner, fs, now, dry_run, media_dirs, sessions, inflight, queue, ext>>

\* persist_movie without the check of the status: the engine is called for
\* an item of any status
persist_movie_any_status(u, id) ==
    /\ u \in users
    /\ LET r == move_to_permanent(Cur, id, u)
       IN  Commit(r) /\ Respond("persisted", r)
    /\ UNCHANGED <<now, dry_run, media_dirs, sessions, inflight, queue, ext>>

\* routes::movies::persist_movie, routes::tv::persist_tv
persist_movie(u, id) ==
    /\ u \in users
    /\ LET m == get_by_id(media, id)
       IN  IF m = None \/ m[1].status # "active"
           THEN response' = "not_found" /\ UNCHANGED <<users, media, marks, owner, fs>>
           ELSE LET r == move_to_permanent(Cur, id, u)
                IN  Commit(r) /\ Respond("persisted", r)
    /\ UNCHANGED <<now, dry_run, media_dirs, sessions, inflight, queue, ext>>

\* unpersist_movie without the check of the owner: any user restores
unpersist_movie_any_user(u, id) ==
    /\ u \in users
    /\ LET m == get_by_id(media, id)
       IN  IF m = None \/ m[1].status # "permanent" \/ get_owner(owner, id) = None
           THEN response' = "not_found" /\ UNCHANGED <<users, media, marks, owner, fs>>
           ELSE LET r == restore_from_permanent_unchecked(Cur, id)
                IN  Commit(r) /\ Respond("unpersisted", r)
    /\ UNCHANGED <<now, dry_run, media_dirs, sessions, inflight, queue, ext>>

\* routes::movies::unpersist_movie, routes::tv::unpersist_tv
unpersist_movie(u, id) ==
    /\ u \in users
    /\ LET m == get_by_id(media, id)
           own == get_owner(owner, id)
       IN  IF m = None \/ m[1].status # "permanent" \/ own = None
           THEN response' = "not_found" /\ UNCHANGED <<users, media, marks, owner, fs>>
           ELSE IF own[1] # u
           THEN response' = "forbidden" /\ UNCHANGED <<users, media, marks, owner, fs>>
           ELSE LET r == restore_from_permanent(Cur, id, u)
                IN  Commit(r) /\ Respond("unpersisted", r)
    /\ UNCHANGED <<now, dry_run, media_dirs, sessions, inflight, queue, ext>>

\* models::media::list_visible_for_user with the owner test left out
list_visible_for_any_user(m, o, u) ==
    {id \in DOMAIN m : m[id].status \in {"active", "permanent"}}

\* models::media::list_visible_for_user, over both media types: LEFT JOIN
\* persistent_media, status = 'active' OR (status = 'permanent' AND pm.user_id = ?)
list_visible_for_user(m, o, u) ==
    {id \in DOMAIN m : \/ m[id].status = "active"
                       \/ (m[id].status = "permanent" /\ get_owner(o, id) = Some(u))}

\* mark::user_marks
user_marks(mk, u) == {x[2] : x \in {y \in mk : y[1] = u}}

\* routes::movies::list_movies and routes::tv::list_tv: the items of the page
\* for the user of the session, show_marked being the query parameter
list_movies(m, o, mk, u, show_marked) ==
    {id \in list_visible_for_user(m, o, u) :
        LET persisted == m[id].status = "permanent"
            marked == ~persisted /\ id \in user_marks(mk, u)
        IN  ~(~show_marked /\ marked)}

\* routes::admin::rescue_item
rescue_item(id) ==
    /\ AdminId \in users
    /\ LET r == rescue_from_trash(Cur, id)
       IN  Commit(r) /\ Respond("rescued", r)
    /\ UNCHANGED <<now, dry_run, media_dirs, sessions, inflight, queue, ext>>

\* routes::admin::delete_user
DeleteUser(id, order) ==
    /\ AdminId \in users
    /\ LET r == delete_user(Cur, id, order)
       IN  Commit(r) /\ Respond("user_deleted", r)
    /\ UNCHANGED <<now, dry_run, media_dirs, sessions, inflight, queue, ext>>

\* routes::admin::create_user
create_user(u) ==
    /\ AdminId \in users
    /\ u \notin users
    /\ users' = user_create(users, u)
    /\ response' = "user_created"
    /\ UNCHANGED <<media, marks, owner, fs, now, dry_run, media_dirs, sessions, inflight, queue, ext>>

(***************************************************************************)
(* Background tasks                                                        *)
(***************************************************************************)
ReadOutcomes == [1..Len(media_dirs) -> BOOLEAN]

\* routes::admin::trigger_scan spawns scanner::full_scan
FullScan(rd) ==
    /\ AdminId \in users
    /\ Commit(full_scan(Cur, rd))
    /\ response' = "none"
    /\ UNCHANGED <<now, dry_run, media_dirs, sessions, inflight, queue, ext>>

\* one turn of the maintenance loop of main
\* the cycle up to, and excluding, the missing-trash check and the grace-period
\* purge
reconcile_before_missing_trash(s, rd) ==
    LET s1 == full_scan(s, rd)
    IN  [s1 EXCEPT !.marks = cleanup_gone_marks(s1.media, @)]

reconcile_before_purge(s, rd) ==
    cleanup_missing_trash(reconcile_before_missing_trash(s, rd))

\* the response records the one error of the cycle that leaves work undone: a
\* refused deletion ("Failed to delete"), after which the item is still trashed
Reconcile(rd, order, del) ==
    /\ LET s3 == reconcile_before_purge(Cur, rd)
           s4 == cleanup_expired(s3, order, del)
           refused == {id \in list_expired_trash(s3.media, now, grace_period_days) :
                          /\ TrashLocation(media_dirs, id) # None
                          /\ s4.media[id].status = "trashed"}
       IN  /\ Commit(s4)
           /\ response' = IF refused = {} THEN "none" ELSE "delete_failed"
    /\ sessions' = session_cleanup_expired(sessions, now)
    /\ UNCHANGED <<now, dry_run, media_dirs, inflight, queue, ext>>

\* watcher: the consumer task receives one event
WatcherEvent(readable) ==
    /\ queue # <<>>
    /\ LET ev == Head(queue)
       IN  IF ev.kind = "create"
           THEN IF IsDir(fs, ev.path)
                   /\ \E i \in 1..Len(media_dirs) : media_dirs[i] = Parent(ev.path)
                THEN Commit(scan_directory(Cur, Parent(ev.path), readable).s)
                ELSE UNCHANGED <<users, media, marks, owner, fs>>
           ELSE /\ media' = mark_gone_by_path(media, ev.path)
                /\ UNCHANGED <<users, marks, owner, fs>>
    /\ queue' = Tail(queue)
    /\ response' = IF Head(queue).kind = "create" THEN "watch_create" ELSE "watch_remove"
    /\ UNCHANGED <<now, dry_run, media_dirs, sessions, inflight, ext>>

(***************************************************************************)
(* The world outside the program: directories appear in and disappear      *)
(* from the library and the trash, and time passes.  The watcher's         *)
(* callback sends an event for a change directly under a watched root.     *)
(***************************************************************************)
Watched(p) == \E i \in 1..Len(media_dirs) : media_dirs[i] = Parent(p)
\* try_send in place of blocking_send: a full channel loses the event
Send_dropping(kind, p) ==
    IF Watched(p) /\ Len(queue) < MaxQueue
    THEN queue' = Append(queue, [kind |-> kind, path |-> p, n |-> ext + 1])
    ELSE UNCHANGED queue

Send(kind, p) ==
    IF Watched(p)
    THEN /\ Len(queue) < MaxQueue
         /\ queue' = Append(queue, [kind |-> kind, path |-> p, n |-> ext + 1])
    ELSE UNCHANGED queue

\* a movie or season directory with a video file is copied into the library
ExtCreate(p) ==
    /\ ext < MaxExt
    /\ ext' = ext + 1
    /\ p \notin fs
    /\ Parent(p) \in fs \/ Parent(Parent(p)) \in fs
    /\ fs' = create_dir_all(fs, p) \cup {Join(p, <<VideoFile>>)}
    /\ IF Parent(p) \in fs THEN Send("create", p) ELSE Send("create", Parent(p))
    /\ response' = "none"
    /\ UNCHANGED <<users, media, marks, owner, now, dry_run, media_dirs, sessions, inflight>>

\* a directory is deleted by hand
ExtRemove(p) ==
    /\ ext < MaxExt
    /\ ext' = ext + 1
    /\ p \in fs
    /\ fs' = remove_dir_all(fs, p)
    /\ Send("remove", p)
    /\ response' = "none"
    /\ UNCHANGED <<users, media, marks, owner, now, dry_run, media_dirs, sessions, inflight>>

Tick ==
    /\ now < MaxTime
    /\ now' = now + 1
    /\ response' = "none"
    /\ UNCHANGED <<users, media, marks, owner, fs, dry_run, media_dirs, sessions, inflight, queue, ext>>

Creatable == {SeasonPath}
Removable == {ShowPath, SeasonPath} \cup
             {TrashLocation(media_dirs, p)[1] : p \in {SeasonPath}}

(***************************************************************************)
(* After start-up: the admin is seeded, the trash directory of every root  *)
(* exists, and the first full scan has catalogued the library.             *)
(***************************************************************************)
InitialFs ==
    {MediaRoot, trash_dir_for_media_dir(MediaRoot)[1],
     ShowPath, SeasonPath, Join(SeasonPath, <<VideoFile>>)}

Init ==
    /\ users = {AdminId}
    /\ media = [q \in {SeasonPath} |-> NewRow]
    /\ marks = {}
    /\ owner = [q \in {} |-> AdminId]
    /\ fs = InitialFs
    /\ now = 0
    /\ dry_run \in BOOLEAN
    /\ media_dirs = <<MediaRoot>>
    /\ sessions = {}
    /\ queue = <<>>
    /\ ext = 0
    /\ inflight = [u \in UserIds |-> None]
    /\ response = "none"

Next ==
    \/ \E u \in UserIds, id \in MediaIds : mark_movie(u, id)
    \/ \E u \in UserIds, id \in MediaIds : unmark_movie(u, id)
    \/ \E u \in UserIds, id \in MediaIds : persist_movie(u, id)
    \/ \E u \in UserIds, id \in MediaIds : unpersist_movie(u, id)
    \/ \E id \in MediaIds : rescue_item(id)
    \/ \E id \in UserIds, order \in Orders : DeleteUser(id, order)
    \/ \E u \in UserIds : create_user(u)
    \/ \E rd \in ReadOutcomes : FullScan(rd)
    \/ \E rd \in ReadOutcomes, order \in Orders, del \in Deletions : Reconcile(rd, order, del)
    \/ Tick

Spec == Init /\ [][Next]_vars

(***************************************************************************)
(* The program without dry-run in runs where no move is refused: a handler  *)
(* whose engine call failed answers AppError::Internal, and delete_user,    *)
(* which discards the result of check_and_trash, leaves an active item at   *)
(* quorum exactly when a move was refused.                                  *)
(***************************************************************************)
InitPlaced == Init /\ ~dry_run

NoMoveRefused == response' # "internal"
NoTrashRefused == media_ids_with_all_marked(users', media', marks') = {}

NextPlaced ==
    \/ \E u \in UserIds, id \in MediaIds : mark_movie(u, id) /\ NoMoveRefused
    \/ \E u \in UserIds, id \in MediaIds : unmark_movie(u, id) /\ NoMoveRefused
    \/ \E u \in UserIds, id \in MediaIds : persist_movie(u, id) /\ NoMoveRefused
    \/ \E u \in UserIds, id \in MediaIds : unpersist_movie(u, id) /\ NoMoveRefused
    \/ \E id \in MediaIds : rescue_item(id) /\ NoMoveRefused
    \/ \E id \in UserIds, order \in Orders :
          DeleteUser(id, order) /\ NoMoveRefused /\ NoTrashRefused
    \/ \E u \in UserIds : create_user(u)
    \/ \E rd \in ReadOutcomes : FullScan(rd)
    \/ \E rd \in ReadOutcomes, order \in Orders, del \in Deletions : Reconcile(rd, order, del)
    \/ Tick

SpecPlaced == InitPlaced /\ [][NextPlaced]_vars

\* the same program in a library that changes under it
(***************************************************************************)
(* The mark request await by await: between two awaits of one request the   *)
(* other tasks of the runtime run                                          *)
(***************************************************************************)
Idle(u) == inflight[u] = None
At(u, pc) == inflight[u] # None /\ inflight[u][1].pc = pc
Goto(u, pc) == inflight' = [inflight EXCEPT ![u] = Some([@[1] EXCEPT !.pc = pc])]
Done(u) == inflight' = [inflight EXCEPT ![u] = None]

\* mark_movie: get_by_id and the test of the status
MarkCheck(u, id) ==
    /\ u \in users
    /\ Idle(u)
    /\ LET m == get_by_id(media, id)
       IN  IF m = None \/ m[1].status # "active"
           THEN response' = "not_found" /\ UNCHANGED inflight
           ELSE /\ inflight' = [inflight EXCEPT ![u] = Some([pc |-> "mark", id |-> id])]
                /\ UNCHANGED response
    /\ UNCHANGED <<users, media, marks, owner, fs, now, dry_run, media_dirs, sessions, queue, ext>>

\* mark_movie: mark::mark
MarkInsert(u) ==
    /\ At(u, "mark")
    /\ marks' = mark(marks, u, inflight[u][1].id)
    /\ Goto(u, "quorum")
    /\ UNCHANGED <<users, media, owner, fs, now, dry_run, media_dirs, sessions, queue, ext, response>>

\* check_and_trash: mark::all_users_marked
MarkQuorum(u) ==
    /\ At(u, "quorum")
    /\ IF all_users_marked(users, marks, inflight[u][1].id)
       THEN Goto(u, "move") /\ UNCHANGED response
       ELSE Done(u) /\ response' = "marked"
    /\ UNCHANGED <<users, media, marks, owner, fs, now, dry_run, media_dirs, sessions, queue, ext>>

\* move_to_trash: get_by_id, then the move (no await in between)
TrashMove(u) ==
    /\ At(u, "move")
    /\ LET id == inflight[u][1].id
           dest == TrashLocation(media_dirs, id)
           f1 == create_dir_all(fs, Parent(dest[1]))
       IN  IF get_by_id(media, id) = None \/ dest = None
           THEN Done(u) /\ response' = "internal" /\ UNCHANGED fs
           ELSE IF dry_run
           THEN Goto(u, "set") /\ UNCHANGED <<fs, response>>
           ELSE IF ~move_path_ok(f1, id, dest[1])
           THEN Done(u) /\ response' = "internal" /\ fs' = f1
           ELSE Goto(u, "set") /\ fs' = move_path(f1, id, dest[1]) /\ UNCHANGED response
    /\ UNCHANGED <<users, media, marks, owner, now, dry_run, media_dirs, sessions, queue, ext>>

\* move_to_trash: media::set_trashed
TrashSet(u) ==
    /\ At(u, "set")
    /\ media' = set_trashed(media, inflight[u][1].id, now)
    /\ Done(u)
    /\ response' = "marked"
    /\ UNCHANGED <<users, marks, owner, fs, now, dry_run, media_dirs, sessions, queue, ext>>

NextRace ==
    \/ \E u \in UserIds, id \in MediaIds : MarkCheck(u, id)
    \/ \E u \in UserIds : MarkInsert(u)
    \/ \E u \in UserIds : MarkQuorum(u)
    \/ \E u \in UserIds : TrashMove(u)
    \/ \E u \in UserIds : TrashSet(u)
    \/ \E u \in UserIds : create_user(u)
    \/ \E rd \in ReadOutcomes, order \in Orders, del \in Deletions : Reconcile(rd, order, del)
    \/ Tick

SpecRace == Init /\ [][NextRace]_vars

\* the purge on its own: marking, the clock and the maintenance loop.  The loop
\* never ends (an interval timer that keeps ticking), and the deletion of a trash
\* copy is not refused for ever
AllDeleted == [id \in MediaIds |-> TRUE]

PurgeCycle == \E rd \in ReadOutcomes, order \in Orders : Reconcile(rd, order, AllDeleted)

NextPurge ==
    \/ \E u \in UserIds, id \in MediaIds : mark_movie(u, id)
    \/ \E u \in UserIds, id \in MediaIds : unmark_movie(u, id)
    \/ \E u \in UserIds : create_user(u)
    \/ \E rd \in ReadOutcomes, order \in Orders, del \in Deletions : Reconcile(rd, order, del)
    \/ Tick

SpecPurge == Init /\ [][NextPurge]_vars /\ WF_vars(PurgeCycle)

(***************************************************************************)
(* The maintenance loop with steps that fail.  Each of the five steps      *)
(* returns Err when its database statement fails: full_scan when           *)
(* mark_gone_except fails after the upserts, the others on their first     *)
(* statement, before any change.  The loop logs the error and goes on.     *)
(***************************************************************************)
Steps == <<"scan", "marks", "missing", "purge", "session">>
StepNames == {Steps[i] : i \in 1..Len(Steps)}
NoFailure == [k \in StepNames |-> FALSE]
\* no step fails, or one does
StepFailures == {NoFailure} \cup {[k \in StepNames |-> k = f] : f \in StepNames}

\* a cycle that returns from the loop body at the first error, as with `?`
Cycle_until_first_error(rd, order, del, fail) ==
    /\ LET stop(k) == \E i \in 1..Len(Steps) : fail[Steps[i]] /\ \E j \in i..Len(Steps) : Steps[j] = k
           s0 == Cur
           s1 == IF fail["scan"] THEN scan_roots(s0, media_dirs, rd, 1).s ELSE full_scan(s0, rd)
           s2 == IF stop("marks") THEN s1
                 ELSE [s1 EXCEPT !.marks = cleanup_gone_marks(s1.media, @)]
           s3 == IF stop("missing") THEN s2 ELSE cleanup_missing_trash(s2)
           s4 == IF stop("purge") THEN s3 ELSE cleanup_expired(s3, order, del)
       IN  /\ Commit(s4)
           /\ sessions' = IF stop("session") THEN sessions
                          ELSE session_cleanup_expired(sessions, now)
           /\ response' = IF fail = NoFailure THEN "none" ELSE "step_failed"
    /\ UNCHANGED <<now, dry_run, media_dirs, inflight, queue, ext>>

\* one turn of the maintenance loop of main; fail[k] says that step k returns
\* Err.  The response records the logged error of a failed step.
Cycle(rd, order, del, fail) ==
    /\ LET s0 == Cur
           s1 == IF fail["scan"] THEN scan_roots(s0, media_dirs, rd, 1).s ELSE full_scan(s0, rd)
           s2 == IF fail["marks"] THEN s1
                 ELSE [s1 EXCEPT !.marks = cleanup_gone_marks(s1.media, @)]
           s3 == IF fail["missing"] THEN s2 ELSE cleanup_missing_trash(s2)
           s4 == IF fail["purge"] THEN s3 ELSE cleanup_expired(s3, order, del)
       IN  /\ Commit(s4)
           /\ sessions' = IF fail["session"] THEN sessions
                          ELSE session_cleanup_expired(sessions, now)
           /\ response' = IF fail = NoFailure THEN "none" ELSE "step_failed"
    /\ UNCHANGED <<now, dry_run, media_dirs, inflight, queue, ext>>

\* routes::auth::login_handler, the password being the right one
login(u) ==
    /\ u \in users
    /\ sessions' = session_create(sessions, u, now)
    /\ response' = "logged_in"
    /\ UNCHANGED <<users, media, marks, owner, fs, now, dry_run, media_dirs, inflight, queue, ext>>

\* a cycle in which no step fails and no deletion is refused
CleanCycle == \E rd \in ReadOutcomes, order \in Orders : Cycle(rd, order, AllDeleted, NoFailure)

NextCycle ==
    \/ \E u \in UserIds, id \in MediaIds : mark_movie(u, id)
    \/ \E u \in UserIds : login(u)
    \/ \E rd \in ReadOutcomes, order \in Orders, fail \in StepFailures :
          Cycle(rd, order, AllDeleted, fail)
    \/ Tick

\* the interval of the loop ticks for ever, and database errors are transient
SpecCycle == Init /\ [][NextCycle]_vars /\ WF_vars(CleanCycle)

(***************************************************************************)
(* Several roots.  The program is started on the database and the disk an  *)
(* earlier run left behind, under a configuration that nests one root in   *)
(* another, lists two disjoint roots, or no longer lists the root of an    *)
(* item that is still in the catalog.                                      *)
(***************************************************************************)
ExtraRoot == <<"media", "extra">>
OtherRoot == <<"other">>
NestedPath == <<"media", "extra", "X">>
FilmPath == <<"other", "Film">>
RootIds == {NestedPath, FilmPath}

\* the values of AppConfig.media_dirs the program is started with
RootConfigs ==
    {<<MediaRoot, ExtraRoot>>, <<ExtraRoot, MediaRoot>>, <<ExtraRoot, OtherRoot>>, <<OtherRoot>>}

\* the configuration of the earlier run, which lists the root of every item
EarlierRoots == <<ExtraRoot, OtherRoot>>

\* where the earlier run left the files of an item of the given status
EarlierLocation(p, status) ==
    CASE status = "trashed" -> TrashLocation(EarlierRoots, p)[1]
      [] status = "permanent" -> PermanentLocation(EarlierRoots, p)[1]
      [] OTHER -> p

\* the disk at start-up: the roots, the trash directory of every root of the
\* earlier and of the present configuration (main creates them), the film,
\* and the nested item where its status says it is
RootsFs(dirs, status) ==
    LET loc == EarlierLocation(NestedPath, status)
    IN  {MediaRoot, ExtraRoot, OtherRoot, FilmPath, Join(FilmPath, <<VideoFile>>)}
        \cup {trash_dir_for_media_dir(dirs[i])[1] : i \in 1..Len(dirs)}
        \cup {trash_dir_for_media_dir(EarlierRoots[i])[1] : i \in 1..Len(EarlierRoots)}
        \cup create_dir_all({}, loc) \cup {Join(loc, <<VideoFile>>)}

InitRoots ==
    /\ users = {AdminId}
    /\ media_dirs \in RootConfigs
    /\ dry_run \in BOOLEAN
    /\ \E status \in {"active", "trashed", "permanent"} :
          /\ media = [q \in RootIds |->
                         IF q = NestedPath /\ status = "trashed"
                         THEN set_trashed([x \in {q} |-> NewRow], q, 0)[q]
                         ELSE IF q = NestedPath /\ status = "permanent"
                         THEN set_permanent([x \in {q} |-> NewRow], q)[q]
                         ELSE NewRow]
          /\ owner = IF status = "permanent"
                     THEN set_owner([q \in {} |-> AdminId], NestedPath, AdminId)
                     ELSE [q \in {} |-> AdminId]
          /\ fs = RootsFs(media_dirs, status)
    /\ marks = {}
    /\ now = 0
    /\ sessions = {}
    /\ queue = <<>>
    /\ ext = 0
    /\ inflight = [u \in UserIds |-> None]
    /\ response = "none"

RootOrders == {<<NestedPath, FilmPath>>, <<FilmPath, NestedPath>>}
RootDeletions == [RootIds -> BOOLEAN]

NextRoots ==
    \/ \E u \in UserIds, id \in RootIds : mark_movie(u, id)
    \/ \E u \in UserIds, id \in RootIds : persist_movie(u, id)
    \/ \E u \in UserIds, id \in RootIds : unpersist_movie(u, id)
    \/ \E id \in RootIds : rescue_item(id)
    \/ \E rd \in ReadOutcomes : FullScan(rd)
    \/ \E rd \in ReadOutcomes, order \in RootOrders, del \in RootDeletions :
          Reconcile(rd, order, del)
    \/ Tick

SpecRoots == InitRoots /\ [][NextRoots]_vars

NextEnv ==
    \/ Next
    \/ \E readable \in BOOLEAN : WatcherEvent(readable)
    \/ \E p \in Creatable : ExtCreate(p)
    \/ \E p \in Removable : ExtRemove(p)

SpecEnv == Init /\ [][NextEnv]_vars

(***************************************************************************)
(* The watcher beside the engine: directories of the library are removed   *)
(* and copied back by hand while users mark and persist, the scan runs,    *)
(* and the consumer task receives the events of the channel in its turn.   *)
(***************************************************************************)
Consume == \E readable \in BOOLEAN : WatcherEvent(readable)

NextWatch ==
    \/ \E u \in UserIds, id \in MediaIds : mark_movie(u, id)
    \/ \E u \in UserIds, id \in MediaIds : persist_movie(u, id)
    \/ \E rd \in ReadOutcomes : FullScan(rd)
    \/ Consume
    \/ \E p \in Creatable : ExtCreate(p)
    \/ \E p \in Removable : ExtRemove(p)

\* the consumer is a spawned task of the runtime: it is scheduled whenever
\* an event waits in the channel
SpecWatch == Init /\ [][NextWatch]_vars /\ WF_vars(Consume)

(***************************************************************************)
(* A movie library under one watched root, with the trash and the persist  *)
(* request await by await beside the watcher and the scan.  The move of an *)
(* item out of its root may reach the notify callback as a Remove event    *)
(* (a move across devices copies and removes; a rename is reported in a    *)
(* platform-dependent way).                                                *)
(***************************************************************************)
InitFilm ==
    /\ users = {AdminId}
    /\ media = [q \in {FilmPath} |-> NewRow]
    /\ marks = {}
    /\ owner = [q \in {} |-> AdminId]
    /\ fs = {OtherRoot, trash_dir_for_media_dir(OtherRoot)[1],
             FilmPath, Join(FilmPath, <<VideoFile>>)}
    /\ now = 0
    /\ dry_run \in BOOLEAN
    /\ media_dirs = <<OtherRoot>>
    /\ sessions = {}
    /\ queue = <<>>
    /\ ext = 0
    /\ inflight = [u \in UserIds |-> None]
    /\ response = "none"

\* persist_movie: get_by_id and the test of the status
PersistCheck(u, id) ==
    /\ u \in users
    /\ Idle(u)
    /\ LET m == get_by_id(media, id)
       IN  IF m = None \/ m[1].status # "active"
           THEN response' = "not_found" /\ UNCHANGED inflight
           ELSE /\ inflight' = [inflight EXCEPT ![u] = Some([pc |-> "persist", id |-> id])]
                /\ UNCHANGED response
    /\ UNCHANGED <<users, media, marks, owner, fs, now, dry_run, media_dirs, sessions, queue, ext>>

\* move_to_permanent: get_by_id, the test of the status, then the move (no
\* await in between)
PersistMove(u) ==
    /\ At(u, "persist")
    /\ LET id == inflight[u][1].id
           item == get_by_id(media, id)
           dest == PermanentLocation(media_dirs, id)
           f1 == create_dir_all(fs, Parent(dest[1]))
       IN  IF item = None \/ item[1].status # "active" \/ dest = None
           THEN Done(u) /\ response' = "internal" /\ UNCHANGED fs
           ELSE IF dry_run
           THEN Goto(u, "set_permanent") /\ UNCHANGED <<fs, response>>
           ELSE IF ~move_path_ok(f1, id, dest[1])
           THEN Done(u) /\ response' = "internal" /\ fs' = f1
           ELSE Goto(u, "set_permanent") /\ fs' = move_path(f1, id, dest[1])
                /\ UNCHANGED response
    /\ UNCHANGED <<users, media, marks, owner, now, dry_run, media_dirs, sessions, queue, ext>>

\* move_to_permanent: media::set_permanent
PersistSet(u) ==
    /\ At(u, "set_permanent")
    /\ media' = set_permanent(media, inflight[u][1].id)
    /\ Goto(u, "set_owner")
    /\ UNCHANGED <<users, marks, owner, fs, now, dry_run, media_dirs, sessions, queue, ext, response>>

\* move_to_permanent: persistent::set_owner, mark::clear_marks
PersistOwner(u) ==
    /\ At(u, "set_owner")
    /\ owner' = set_owner(owner, inflight[u][1].id, u)
    /\ marks' = clear_marks(marks, inflight[u][1].id)
    /\ Done(u)
    /\ response' = "persisted"
    /\ UNCHANGED <<users, media, fs, now, dry_run, media_dirs, sessions, queue, ext>>

\* the callback is given the Remove event of a directory that has left its
\* watched root
RemoveSeen(p) ==
    /\ ext < MaxExt
    /\ ext' = ext + 1
    /\ ~Exists(fs, p)
    /\ Watched(p)
    /\ Send("remove", p)
    /\ response' = "none"
    /\ UNCHANGED <<users, media, marks, owner, fs, now, dry_run, media_dirs, sessions, inflight>>

NextGone ==
    \/ \E u \in UserIds : MarkCheck(u, FilmPath)
    \/ \E u \in UserIds : MarkInsert(u)
    \/ \E u \in UserIds : MarkQuorum(u)
    \/ \E u \in UserIds : TrashMove(u)
    \/ \E u \in UserIds : TrashSet(u)
    \/ \E u \in UserIds : PersistCheck(u, FilmPath)
    \/ \E u \in UserIds : PersistMove(u)
    \/ \E u \in UserIds : PersistSet(u)
    \/ \E u \in UserIds : PersistOwner(u)
    \/ \E u \in UserIds : create_user(u)
    \/ RemoveSeen(FilmPath)
    \/ Consume
    \/ \E rd \in ReadOutcomes : FullScan(rd)

SpecGone == InitFilm /\ [][NextGone]_vars

(***************************************************************************)
(* delete_user await by await beside the persist request of the user who   *)
(* is being deleted: the handler holds no transaction and no lock          *)
(***************************************************************************)
\* delete_user: list_media_ids_by_owner and the forced restores
DeleteRestore(u, order) ==
    /\ AdminId \in users
    /\ Idle(AdminId)
    /\ LET r == restore_each(Cur, SeqOf(list_media_ids_by_owner(owner, u), order))
       IN  /\ Commit(r)
           /\ IF r.res # "ok"
              THEN response' = "internal" /\ UNCHANGED inflight
              ELSE /\ inflight' = [inflight EXCEPT ![AdminId] = Some([pc |-> "delete", id |-> u])]
                   /\ UNCHANGED response
    /\ UNCHANGED <<now, dry_run, media_dirs, sessions, queue, ext>>

\* delete_user: user::delete, then check_and_trash of every item at quorum
DeleteRemove(order) ==
    /\ At(AdminId, "delete")
    /\ LET u == inflight[AdminId][1].id
           s2 == [Cur EXCEPT !.users = user_delete(@, u),
                             !.marks = cascade_marks(@, u),
                             !.owner = cascade_owner(@, u)]
           eligible == media_ids_with_all_marked(s2.users, s2.media, s2.marks)
       IN  Commit(trash_each(s2, SeqOf(eligible, order)))
    /\ Done(AdminId)
    /\ response' = "user_deleted"
    /\ UNCHANGED <<now, dry_run, media_dirs, sessions, queue, ext>>

NextDelete ==
    \/ \E u \in UserIds : create_user(u)
    \/ \E u \in UserIds, id \in MediaIds : PersistCheck(u, id)
    \/ \E u \in UserIds : PersistMove(u)
    \/ \E u \in UserIds : PersistSet(u)
    \/ \E u \in UserIds : PersistOwner(u)
    \/ \E u \in UserIds, id \in MediaIds : unpersist_movie(u, id)
    \/ \E u \in UserIds, order \in Orders : DeleteRestore(u, order)
    \/ \E order \in Orders : DeleteRemove(order)

SpecDelete == Init /\ [][NextDelete]_vars

TypeOK ==
    /\ users \subseteq UserIds
    /\ DOMAIN media \subseteq MediaIds
    /\ \A p \in DOMAIN media :
          /\ media[p].status \in {"active", "trashed", "permanent", "gone"}
          /\ media[p].trashed_at \in {None} \cup {Some(t) : t \in 0..MaxTime}
    /\ marks \subseteq UserIds \X MediaIds
    /\ DOMAIN owner \subseteq MediaIds
    /\ now \in 0..MaxTime
    /\ DOMAIN inflight = UserIds
    /\ Len(queue) <= MaxQueue
    /\ \A i \in 1..Len(queue) :
          /\ queue[i].kind \in {"create", "remove"}
          /\ queue[i].n \in 1..MaxExt
    /\ ext \in 0..MaxExt

(***************************************************************************)
(* Properties                                                              *)
(***************************************************************************)
Items == DOMAIN media
Status(p) == media[p].status

\* C1: in every reachable state, every item has status trashed exactly when
\* its trashed_at is non-null
C1_TrashedIffTrashedAt ==
    \A p \in Items : (Status(p) = "trashed") <=> (media[p].trashed_at # None)

\* a purged item of a run that is no dry run: gone, with trashed_at still set
C1_PurgedKeepsTrashedAt ==
    /\ ~dry_run
    /\ \E p \in Items : Status(p) = "gone" /\ media[p].trashed_at # None

\* the markers of id, once u has marked it, are all the current users
QuorumWith(u, id) == \A w \in users : w = u \/ <<w, id>> \in marks
IsActive(id) == id \in Items /\ Status(id) = "active"

CatalogAndDisk == <<users, media, marks, owner, fs>>

\* C3: a mark or unmark request on an item that is trashed, permanent or gone
\* is rejected, creates and removes no mark row, and leaves the status as it is
C3_MarkOnInactiveRejected ==
    [][\A u \in UserIds, id \in MediaIds :
          (id \in Items /\ ~IsActive(id) /\ (mark_movie(u, id) \/ unmark_movie(u, id))) =>
              /\ response' = "not_found"
              /\ marks' = marks
              /\ media' = media]_vars

\* a request was rejected while an inactive item carries a mark that a user
\* could ask to withdraw, and another user has no mark on it yet
C3_RejectedOnInactive ==
    /\ response = "not_found"
    /\ \E id \in Items, u \in users, w \in users :
          /\ Status(id) \in {"trashed", "permanent", "gone"}
          /\ <<u, id>> \in marks
          /\ <<w, id>> \notin marks

\* C4: a successful rescue of a trashed item leaves it active with trashed_at
\* cleared and with no mark on it; the marks on other items are untouched
C4_RescueClearsItemMarks ==
    [][\A id \in MediaIds :
          (id \in Items /\ Status(id) = "trashed" /\ response' = "rescued" /\ rescue_item(id)) =>
              /\ media'[id] = [status |-> "active", trashed_at |-> None]
              /\ mark_count(marks', id) = 0
              /\ {x \in marks' : x[2] # id} = {x \in marks : x[2] # id}]_vars

\* a rescue succeeded; an item is active, unmarked and on disk, its directory
\* in the trash is gone, and another item is still marked
C4_RescuedAmongMarked ==
    /\ response = "rescued"
    /\ ~dry_run
    /\ \E id \in Items, other \in Items :
          /\ media[id] = [status |-> "active", trashed_at |-> None]
          /\ mark_count(marks, id) = 0
          /\ id \in fs
          /\ Parent(TrashLocation(media_dirs, id)[1]) \in fs
          /\ TrashLocation(media_dirs, id)[1] \notin fs
          /\ other # id
          /\ Status(other) = "active"
          /\ mark_count(marks, other) > 0

IsPermanent(id) == id \in Items /\ Status(id) = "permanent"
PermanentPath(id) == PermanentLocation(media_dirs, id)[1]
\* what a directory holds, relative to the directory
Content(f, dir) == {StripPrefix(e, dir) : e \in Under(f, dir)}

\* C5: a successful persist by u of an active item leaves the item permanent,
\* owned by u alone, with no mark on it
C5_PersistOwnsAndClears ==
    [][\A u \in UserIds, id \in MediaIds :
          (IsActive(id) /\ response' = "persisted" /\ persist_movie(u, id)) =>
              /\ media'[id].status = "permanent"
              /\ get_owner(owner', id) = Some(u)
              /\ mark_count(marks', id) = 0]_vars

\* a persist succeeded for the second user, and the item carries no mark
C5_PersistedByUser ==
    /\ response = "persisted"
    /\ \E id \in Items : /\ Status(id) = "permanent"
                         /\ get_owner(owner, id) = Some(2)
                         /\ mark_count(marks, id) = 0
                         /\ (~dry_run => PermanentPath(id) \in fs)

\* C6: an unpersist by a user who is not the owner fails with Forbidden and
\* leaves the status, the owner, the marks and the place on disk as they are
C6_UnpersistByOtherForbidden ==
    [][\A u \in UserIds, id \in MediaIds :
          (/\ IsPermanent(id)
           /\ get_owner(owner, id) # None
           /\ get_owner(owner, id) # Some(u)
           /\ unpersist_movie(u, id)) =>
              /\ response' = "forbidden"
              /\ UNCHANGED <<media, owner, marks, fs>>]_vars

\* an unpersist was answered Forbidden; the item is permanent, owned, and in
\* its permanent place
C6_Forbidden ==
    /\ response = "forbidden"
    /\ ~dry_run
    /\ \E id \in Items : /\ Status(id) = "permanent"
                         /\ id \in DOMAIN owner
                         /\ PermanentPath(id) \in fs

\* C7: a persist is accepted only for an active item and an unpersist only
\* for a permanent item; a rejected request changes neither the catalog nor
\* the disk
C7_PersistOnlyActiveUnpersistOnlyPermanent ==
    [][\A u \in UserIds, id \in MediaIds :
          /\ (~IsActive(id) /\ persist_movie(u, id)) =>
                 response' = "not_found" /\ UNCHANGED CatalogAndDisk
          /\ (~IsPermanent(id) /\ unpersist_movie(u, id)) =>
                 response' = "not_found" /\ UNCHANGED CatalogAndDisk
          /\ (response' \in {"not_found", "forbidden"}
                 /\ (persist_movie(u, id) \/ unpersist_movie(u, id))) =>
                 UNCHANGED CatalogAndDisk]_vars

\* a request was rejected while no item is active and one item is trashed
C7_RejectedNotActive ==
    /\ response = "not_found"
    /\ Items # {}
    /\ \A id \in Items : Status(id) \in {"trashed", "gone"}
    /\ \E id \in Items : Status(id) = "trashed"

\* C8: persist followed by unpersist by the same user is a round trip: the
\* persist carries the directory, as it is, from its path to the matching
\* path under the permanent sibling directory, and the unpersist carries it
\* back to exactly that path (directly under the root for a movie, under its
\* show directory for a season), leaves the item active and leaves nothing
\* of the item under the permanent sibling directory
C8_PersistUnpersistRoundTrip ==
    [][\A u \in UserIds, id \in MediaIds :
          /\ (IsActive(id) /\ response' = "persisted" /\ persist_movie(u, id)) =>
                 /\ owner'[id] = u
                 /\ ~dry_run =>
                        /\ Content(fs', PermanentPath(id)) = Content(fs, id)
                        /\ Content(fs', PermanentPath(id)) # {}
                        /\ Under(fs', id) = {}
          /\ (IsPermanent(id) /\ response' = "unpersisted" /\ unpersist_movie(u, id)) =>
                 /\ owner[id] = u
                 /\ media'[id] = [status |-> "active", trashed_at |-> None]
                 /\ Under(fs', PermanentPath(id)) = {}
                 /\ id \in fs'
                 /\ ~dry_run => Content(fs', id) = Content(fs, PermanentPath(id))]_vars

\* an unpersist succeeded: the season is active and back under its show
\* directory with its file, and the directory the persist made for the show
\* under the permanent sibling directory is left empty
C8_SeasonRestored ==
    /\ response = "unpersisted"
    /\ ~dry_run
    /\ SeasonPath \in Items
    /\ media[SeasonPath] = [status |-> "active", trashed_at |-> None]
    /\ Join(SeasonPath, <<VideoFile>>) \in fs
    /\ Under(fs, PermanentPath(SeasonPath)) = {}
    /\ Parent(PermanentPath(SeasonPath)) \in fs

\* after the step, id is active and every user has a mark on it
QuorumOnActiveAfter(id) ==
    /\ id \in DOMAIN media'
    /\ media'[id].status = "active"
    /\ \A w \in users' : <<w, id>> \in marks'

\* before the step, id is active and a user other than d has no mark on it
WaitsOnRemainingUser(d, id) ==
    /\ IsActive(id)
    /\ \E w \in users \ {d} : <<w, id>> \notin marks

C10_OwnerDeletionRestores ==
    [][\A d \in UserIds, order \in Orders :
          (response' = "user_deleted" /\ DeleteUser(d, order)) =>
              \A id \in MediaIds :
                  (IsPermanent(id) /\ get_owner(owner, id) = Some(d)) =>
                      /\ media'[id].status = "active"
                      /\ get_owner(owner', id) = None]_vars

\* the last user was deleted, and an item is in the trash that nobody marked
C10_RestoredThenTrashed ==
    /\ response = "user_deleted"
    /\ users = {}
    /\ \E id \in Items : Status(id) = "trashed" /\ mark_count(marks, id) = 0

\* an item whose grace period has elapsed at the current clock value
Expired(id) ==
    /\ id \in Items
    /\ Status(id) = "trashed"
    /\ media[id].trashed_at # None
    /\ media[id].trashed_at[1] <= now - grace_period_days

\* C11 as stated: after a reconciliation cycle in which its trash copy can be
\* deleted, every item that was trashed with trashed_at older than the grace
\* period when the cycle began is gone and its trash copy no longer exists on disk
C11_ExpiredPurgedByCycle ==
    [][\A rd \in ReadOutcomes, order \in Orders, del \in Deletions :
          Reconcile(rd, order, del) =>
              \A id \in MediaIds :
                  (Expired(id) /\ del[id]) =>
                      /\ media'[id].status = "gone"
                      /\ ~Exists(fs', TrashLocation(media_dirs, id)[1])]_vars

\* a cycle has run past the grace period of an item trashed at time 0, and the
\* item is active again instead of gone
C11_ExpiredReactivatedByCycle ==
    /\ response = "none"
    /\ now = MaxTime
    /\ \E id \in Items :
          /\ media[id] = [status |-> "active", trashed_at |-> Some(0)]
          /\ Exists(fs, id)

\* where an item's directory lies according to its row: the library path while
\* active, the trash location while trashed, the permanent location while
\* permanent, nowhere once gone
LocationOf(m, id) ==
    CASE m[id].status = "active" -> {id}
      [] m[id].status = "trashed" -> {TrashLocation(media_dirs, id)[1]}
      [] m[id].status = "permanent" -> {PermanentLocation(media_dirs, id)[1]}
      [] OTHER -> {}

\* the entries that are an item's own: those under its location and not under
\* the location of another catalog item
OwnFiles(f, m, id) ==
    LET mine == UNION {Under(f, l) : l \in LocationOf(m, id)}
        others == UNION {UNION {Under(f, l) : l \in LocationOf(m, o)} :
                            o \in DOMAIN m \ {id}}
    IN  IF id = SeasonPath THEN mine ELSE mine \ others

\* C12 as stated: whenever the cycle calls cleanup_expired, every item that is not
\* trashed with trashed_at at least grace_period_days in the past keeps its row
\* and its files
C12_PurgeOnlyExpired ==
    \A rd \in ReadOutcomes, order \in Orders, del \in Deletions :
        LET s == reconcile_before_purge(Cur, rd)
            r == cleanup_expired(s, order, del)
        IN  \A id \in DOMAIN s.media :
                id \notin list_expired_trash(s.media, now, grace_period_days) =>
                    /\ r.media[id] = s.media[id]
                    /\ OwnFiles(r.fs, r.media, id) = OwnFiles(s.fs, s.media, id)

\* the purge of the expired show has deleted the trash copy of the season, which
\* was trashed later and whose grace period has not elapsed
C12_UnexpiredCopyDeleted ==
    /\ response = "none"
    /\ ~dry_run
    /\ now = MaxTime
    /\ Items = MediaIds
    /\ media[ShowPath] = [status |-> "gone", trashed_at |-> Some(0)]
    /\ media[SeasonPath] = [status |-> "trashed", trashed_at |-> Some(MaxTime)]
    /\ users = {AdminId}
    /\ <<AdminId, SeasonPath>> \in marks
    /\ ~Exists(fs, TrashLocation(media_dirs, SeasonPath)[1])

IsGone(id) == id \in Items /\ Status(id) = "gone"

MarksOn(mk, id) == {x \in mk : x[2] = id}

\* C14: whenever the cycle calls cleanup_missing_trash, every trashed item whose
\* trash copy is not on disk becomes gone with no mark on it, and every trashed
\* item whose trash copy is on disk keeps its row and its marks
C14_MissingTrashGone ==
    \A rd \in ReadOutcomes :
        LET s == reconcile_before_missing_trash(Cur, rd)
            r == cleanup_missing_trash(s)
        IN  \A id \in list_trashed(s.media) :
                IF Exists(s.fs, TrashLocation(media_dirs, id)[1])
                THEN /\ r.media[id] = s.media[id]
                     /\ MarksOn(r.marks, id) = MarksOn(s.marks, id)
                ELSE /\ r.media[id].status = "gone"
                     /\ MarksOn(r.marks, id) = {}

\* a cycle found the season trashed within its grace period with no copy at its
\* trash location: the season is gone and carries no mark, while its files lie
\* in the library where the cycle's scan could not read them
C14_GoneWithoutTrashCopy ==
    /\ response = "none"
    /\ now = 0
    /\ users = UserIds
    /\ media[SeasonPath] = [status |-> "gone", trashed_at |-> Some(0)]
    /\ MarksOn(marks, SeasonPath) = {}
    /\ Exists(fs, SeasonPath)

\* C15 as stated: at the end of every reconciliation cycle no mark refers to an
\* item whose status is gone
C15_NoMarkOnGoneAfterCycle ==
    [][\A rd \in ReadOutcomes, order \in Orders, del \in Deletions :
          (response' \in {"none", "delete_failed"} /\ Reconcile(rd, order, del)) =>
              \A x \in marks' : media'[x[2]].status # "gone"]_vars

\* a cycle has purged the season past its grace period, and the mark that
\* trashed it is still there
C15_MarkOnPurgedItem ==
    /\ response = "none"
    /\ ~dry_run
    /\ now = MaxTime
    /\ media[SeasonPath] = [status |-> "gone", trashed_at |-> Some(0)]
    /\ ~Exists(fs, TrashLocation(media_dirs, SeasonPath)[1])
    /\ MarksOn(marks, SeasonPath) = {<<u, SeasonPath>> : u \in users}
    /\ users # {}

\* the move of src to dst, tried after the creation of dst's parent directory, is
\* refused: dry-run is off and the rename cannot be done
MoveFails(f, src, dst) ==
    ~dry_run /\ ~CanRename(create_dir_all(f, Parent(dst)), src, dst)

Unchanged(r, id) == r.res = "err" /\ r.media[id] = media[id]

\* C16: in every reachable state, an engine operation whose move is refused
\* returns an error and leaves the item's status and trashed_at as they were:
\* the trash of an active item at quorum (with or without a mark just added),
\* the persist of an active item, the unpersist of a permanent item, the rescue
\* of an item
C16_FailedMoveKeepsStatus ==
    \A id \in Items :
        LET trash == TrashLocation(media_dirs, id)[1]
            perm == PermanentLocation(media_dirs, id)[1]
        IN  /\ (IsActive(id) /\ MoveFails(fs, id, trash)) =>
                  \A s \in {Cur} \cup {[Cur EXCEPT !.marks = mark(@, u, id)] : u \in users} :
                      all_users_marked(s.users, s.marks, id) =>
                          Unchanged(check_and_trash(s, id), id)
            /\ (IsActive(id) /\ MoveFails(fs, id, perm)) =>
                  \A u \in users : Unchanged(move_to_permanent(Cur, id, u), id)
            /\ (IsPermanent(id) /\ MoveFails(fs, perm, id)) =>
                  /\ Unchanged(restore_from_permanent_unchecked(Cur, id), id)
                  /\ \A u \in users : Unchanged(restore_from_permanent(Cur, id, u), id)
            /\ MoveFails(fs, trash, id) => Unchanged(rescue_from_trash(Cur, id), id)

\* a request has ended with the error of a refused move to the trash: every user
\* has marked the item, and the item is still active
C16_TrashRefused ==
    /\ response = "internal"
    /\ users = UserIds
    /\ \E id \in Items :
          /\ media[id] = [status |-> "active", trashed_at |-> None]
          /\ all_users_marked(users, marks, id)
          /\ MoveFails(fs, id, TrashLocation(media_dirs, id)[1])

\* C17 as stated: a mark request that reaches quorum and whose move to the trash
\* is refused answers with the error and leaves media, owner and mark rows as
\* they were before the request
C17_RefusedTrashLeavesDatabase ==
    [][\A u \in UserIds, id \in MediaIds :
          (/\ IsActive(id)
           /\ QuorumWith(u, id)
           /\ MoveFails(fs, id, TrashLocation(media_dirs, id)[1])
           /\ mark_movie(u, id)) =>
              /\ response' = "internal"
              /\ media' = media
              /\ owner' = owner
              /\ marks' = marks]_vars

\* the only user's mark on the show was answered with the error of the refused
\* move, and the mark row is in the database
C17_MarkKeptAfterRefusal ==
    /\ response = "internal"
    /\ ~dry_run
    /\ users = {AdminId}
    /\ IsActive(ShowPath)
    /\ MarksOn(marks, ShowPath) = {<<AdminId, ShowPath>>}
    /\ MoveFails(fs, ShowPath, TrashLocation(media_dirs, ShowPath)[1])

\* C18 as stated: when a mark request that has observed the quorum comes to its
\* move or to its status update and the item is no longer active (another
\* trigger has made the transition), the step is a no-op: it ends the request
\* with success and changes neither the catalog nor the disk
C18_DuplicateTriggerIsNoOp ==
    [][\A u \in UserIds :
          (/\ inflight[u] # None
           /\ inflight[u][1].id \in Items
           /\ Status(inflight[u][1].id) # "active"
           /\ (TrashMove(u) \/ TrashSet(u))) =>
              /\ media' = media
              /\ fs' = fs
              /\ inflight'[u] = None
              /\ response' = "marked"]_vars

\* two users marked the season at the same time and both saw the quorum: the
\* first request moved it to the trash, the second tried the move again and
\* answered with the error of the missing source
C18_SecondMoveAttempted ==
    /\ response = "internal"
    /\ ~dry_run
    /\ users = UserIds
    /\ Items = {SeasonPath}
    /\ Status(SeasonPath) = "trashed"
    /\ Exists(fs, TrashLocation(media_dirs, SeasonPath)[1])
    /\ MarksOn(marks, SeasonPath) = {<<u, SeasonPath>> : u \in users}
    /\ \A u \in UserIds : inflight[u] = None

\* C19 as stated: in every reachable state an owner row exists for an item
\* exactly when the item's status is permanent (persistent_media holds at most
\* one row for a media id: owner is a function of the media id)
C19_OwnerIffPermanent ==
    /\ DOMAIN owner \subseteq Items
    /\ \A id \in Items : (get_owner(owner, id) # None) <=> (Status(id) = "permanent")

\* a scan has found the directory of a permanent item in the library and made
\* the item active; its owner row is still there
C19_OwnerOfActiveItem ==
    /\ response = "none"
    /\ \E id \in Items :
          /\ IsActive(id)
          /\ Exists(fs, id)
          /\ get_owner(owner, id) \in {Some(u) : u \in users}

CatalogOf(r) == <<r.users, r.media, r.marks, r.owner>>

\* the catalog transitions of the engine operations
TrashedCatalog(id) ==
    <<users, [media EXCEPT ![id] = [status |-> "trashed", trashed_at |-> Some(now)]],
      marks, owner>>
RescuedCatalog(id) ==
    <<users, [media EXCEPT ![id] = [status |-> "active", trashed_at |-> None]],
      marks \ MarksOn(marks, id), owner>>
PersistedCatalog(id, u) ==
    <<users, [media EXCEPT ![id] = [status |-> "permanent", trashed_at |-> None]],
      marks \ MarksOn(marks, id),
      [q \in DOMAIN owner \cup {id} |-> IF q = id THEN u ELSE owner[q]]>>
RestoredCatalog(id) ==
    <<users, [media EXCEPT ![id] = [status |-> "active", trashed_at |-> None]],
      marks \ MarksOn(marks, id),
      [q \in DOMAIN owner \ {id} |-> owner[q]]>>
PurgedCatalog ==
    <<users, [q \in Items |-> IF Expired(q) THEN [media[q] EXCEPT !.status = "gone"]
                                            ELSE media[q]],
      marks, owner>>

\* an engine operation that succeeds makes its catalog transition
Makes(r, catalog) == r.res = "ok" => CatalogOf(r) = catalog
\* with dry-run on it succeeds, makes its catalog transition and leaves the disk
\* as it is
MakesDry(r, catalog) == dry_run => (r.res = "ok" /\ CatalogOf(r) = catalog /\ r.fs = fs)

\* C21: in every reachable state, with dry-run on, the trash of an active item,
\* the rescue of a trashed item, the persist of an active item, the unpersist of
\* a permanent item and the grace-period purge leave the disk as it is and make
\* the catalog transition that the same operation makes when it succeeds with
\* dry-run off
C21_DryRunSameCatalogNoDisk ==
    /\ \A id \in Items :
          /\ IsActive(id) =>
                LET r == move_to_trash(Cur, id)
                IN  Makes(r, TrashedCatalog(id)) /\ MakesDry(r, TrashedCatalog(id))
          /\ Status(id) = "trashed" =>
                LET r == rescue_from_trash(Cur, id)
                IN  Makes(r, RescuedCatalog(id)) /\ MakesDry(r, RescuedCatalog(id))
          /\ IsActive(id) =>
                \A u \in users :
                    LET r == move_to_permanent(Cur, id, u)
                    IN  Makes(r, PersistedCatalog(id, u)) /\ MakesDry(r, PersistedCatalog(id, u))
          /\ IsPermanent(id) =>
                LET r == restore_from_permanent_unchecked(Cur, id)
                IN  Makes(r, RestoredCatalog(id)) /\ MakesDry(r, RestoredCatalog(id))
    /\ \A order \in Orders :
          /\ Makes(cleanup_expired(Cur, order, AllDeleted), PurgedCatalog)
          /\ \A del \in Deletions : MakesDry(cleanup_expired(Cur, order, del), PurgedCatalog)

\* with dry-run on, the season was persisted: it is permanent with its owner and
\* no mark, and the disk is as it was at the start
C21_DryRunDiskUntouched ==
    /\ dry_run
    /\ fs = InitialFs
    /\ now = MaxTime
    /\ users = UserIds
    /\ response = "persisted"
    /\ IsPermanent(SeasonPath)
    /\ get_owner(owner, SeasonPath) # None
    /\ marks = {}

(***************************************************************************)
(* C22.  Resolution picks the configured prefix root with the most path    *)
(* components, and every operation works at the location under that root.  *)
(***************************************************************************)
ConfiguredRoots == {media_dirs[i] : i \in 1..Len(media_dirs)}
PrefixRoots(p) == {r \in ConfiguredRoots : StartsWith(p, r)}
Resolves(p) == PrefixRoots(p) # {}
MostSpecificRoot(p) == CHOOSE r \in PrefixRoots(p) : \A c \in PrefixRoots(p) : Len(c) <= Len(r)
SiblingOf(root, suffix) == Join(Parent(root), <<FileName(root) \o suffix>>)
TrashOf(p) == Join(SiblingOf(MostSpecificRoot(p), "_trash"), StripPrefix(p, MostSpecificRoot(p)))
PermanentOf(p) ==
    Join(SiblingOf(MostSpecificRoot(p), "_permanent"), StripPrefix(p, MostSpecificRoot(p)))
AllRootDeleted == [id \in RootIds |-> TRUE]

\* C22: in every reachable state and for every item, the resolved root is the
\* prefix root of greatest length (/media/extra for /media/extra/X when /media
\* is configured too), and trash, rescue, purge, the missing-trash check,
\* persist and unpersist all work at the location under that one root
C22_MostSpecificRootEverywhere ==
    /\ Len(media_dirs) = 2 /\ ConfiguredRoots = {MediaRoot, ExtraRoot}
          => best_media_dir(media_dirs, NestedPath) = Some(ExtraRoot)
    /\ \A p \in RootIds :
          /\ best_media_dir(media_dirs, p) =
                IF Resolves(p) THEN Some(MostSpecificRoot(p)) ELSE None
          /\ (Resolves(p) /\ ~dry_run) =>
                /\ LET r == move_to_trash(Cur, p)
                   IN  r.res = "ok" => (p \in fs /\ TrashOf(p) \in r.fs /\ p \notin r.fs)
                /\ LET r == rescue_from_trash(Cur, p)
                   IN  r.res = "ok" <=> (TrashOf(p) \in fs /\ move_path_ok(fs, TrashOf(p), p))
                /\ LET r == move_to_permanent(Cur, p, AdminId)
                   IN  r.res = "ok" => (p \in fs /\ PermanentOf(p) \in r.fs /\ p \notin r.fs)
                /\ LET r == restore_from_permanent_unchecked(Cur, p)
                   IN  (Status(p) = "permanent" /\ r.res = "ok")
                          => (PermanentOf(p) \in fs /\ PermanentOf(p) \notin r.fs)
                /\ LET r == cleanup_missing_trash(Cur)
                   IN  Status(p) = "trashed"
                          => (r.media[p].status = "gone" <=> TrashOf(p) \notin fs)
                /\ \A order \in RootOrders :
                      LET r == cleanup_expired(Cur, order, AllRootDeleted)
                      IN  Expired(p) => (r.media[p].status = "gone" /\ TrashOf(p) \notin r.fs)

\* the nested item has been trashed by its quorum under the two overlapping roots,
\* and its files lie in the trash of /media/extra, not in that of /media
C22_NestedItemInTrashOfExtra ==
    /\ ConfiguredRoots = {MediaRoot, ExtraRoot}
    /\ ~dry_run
    /\ response = "marked"
    /\ Status(NestedPath) = "trashed"
    /\ <<"media", "extra_trash", "X">> \in fs
    /\ <<"media_trash", "extra", "X">> \notin fs
    /\ NestedPath \notin fs

(***************************************************************************)
(* C23.  The trash and permanent locations keep the path below the root.   *)
(***************************************************************************)
Relocated(f, from, to) == {Join(to, StripPrefix(e, from)) : e \in Under(f, from)}
FlattenedSeason == Join(MediaRoot, <<FileName(SeasonPath)>>)

\* C23: the trash (permanent) location of an item is its path below the root
\* rejoined under <root>_trash (<root>_permanent); trashing the season
\* <root>/Show/Season 1 puts its files under <root>_trash/Show/Season 1, and a
\* rescue puts them back under <root>/Show/Season 1 and nowhere else
C23_LocationKeepsRelativePath ==
    /\ [][TrashLocation(media_dirs, SeasonPath) = Some(<<"media_trash", "Show", "Season 1">>)
          /\ PermanentLocation(media_dirs, SeasonPath)
                = Some(<<"media_permanent", "Show", "Season 1">>)
          /\ \A id \in MediaIds :
                /\ TrashLocation(media_dirs, id)
                      = Some(Join(<<"media_trash">>, StripPrefix(id, MediaRoot)))
                /\ PermanentLocation(media_dirs, id)
                      = Some(Join(<<"media_permanent">>, StripPrefix(id, MediaRoot)))]_vars
    /\ [][\A u \in UserIds, id \in MediaIds :
             (/\ ~dry_run
              /\ id \in Items
              /\ Status(id) = "active"
              /\ response' = "marked"
              /\ mark_movie(u, id)
              /\ Status(id)' = "trashed")
             => /\ Under(fs', Join(<<"media_trash">>, StripPrefix(id, MediaRoot)))
                      = Relocated(fs, id, Join(<<"media_trash">>, StripPrefix(id, MediaRoot)))
                /\ Under(fs', id) = {}
                /\ id = SeasonPath => <<"media_trash", "Season 1">> \notin fs']_vars
    /\ [][\A id \in MediaIds :
             (/\ ~dry_run
              /\ response' = "rescued"
              /\ rescue_item(id))
             => /\ Under(fs', id)
                      = Relocated(fs, Join(<<"media_trash">>, StripPrefix(id, MediaRoot)), id)
                /\ Under(fs', id) # {}
                /\ Under(fs', Join(<<"media_trash">>, StripPrefix(id, MediaRoot))) = {}
                /\ id = SeasonPath => (FlattenedSeason \in fs' <=> FlattenedSeason \in fs)]_vars

\* the season has been trashed and rescued: it is back at <root>/Show/Season 1
\* with its file, and neither the trash nor <root>/Season 1 holds it
C23_SeasonRescuedInPlace ==
    /\ ~dry_run
    /\ response = "rescued"
    /\ Status(SeasonPath) = "active"
    /\ Join(SeasonPath, <<VideoFile>>) \in fs
    /\ <<"media_trash", "Show", "Season 1">> \notin fs
    /\ FlattenedSeason \notin fs

(***************************************************************************)
(* C24.  full_scan marks gone the active items it did not discover.        *)
(***************************************************************************)
\* C24: after a full scan an item that was active before it is gone exactly
\* when its path is not among the paths discovered under the roots, and the
\* gone-marking step leaves every trashed, permanent or gone row as it was
C24_ScanIsSetDifference ==
    [][\A rd \in ReadOutcomes :
          FullScan(rd) =>
             LET r == scan_roots(Cur, media_dirs, rd, 1)
             IN  \A id \in Items :
                    /\ Status(id) = "active" =>
                          /\ Status(id)' = "gone" <=> id \notin r.seen
                          /\ Status(id)' \in {"active", "gone"}
                    /\ r.s.media[id].status \in {"trashed", "permanent", "gone"}
                          => media'[id] = r.s.media[id]]_vars

\* a scan under the nested roots has catalogued /media/extra, has marked gone
\* the film it did not discover, and has left the trashed item trashed
C24_UndiscoveredFilmGone ==
    /\ media_dirs = <<MediaRoot, ExtraRoot>>
    /\ ExtraRoot \in Items
    /\ Status(ExtraRoot) = "active"
    /\ Status(FilmPath) = "gone"
    /\ Status(NestedPath) = "trashed"
    /\ marks = {}
    /\ now = 0

(***************************************************************************)
(* C25.  A root whose scan failed, and the active items under it.          *)
(***************************************************************************)
\* the scan of the root that the item resolves to has failed
ScanOfRootFailed(rd, id) ==
    \E i \in 1..Len(media_dirs) : ~rd[i] /\ best_media_dir(media_dirs, id) = Some(media_dirs[i])

\* C25: a full scan in which the scan of a root fails does not mark gone the
\* active items under that root
C25_FailedRootKeepsItsItems ==
    [][\A rd \in ReadOutcomes :
          FullScan(rd) =>
             \A id \in Items :
                (Status(id) = "active" /\ ScanOfRootFailed(rd, id)) => Status(id)' # "gone"]_vars

\* the film is gone while it lies untouched on the disk under its root, and the
\* item of the other root is still active
C25_FilmOnDiskMarkedGone ==
    /\ media_dirs = <<ExtraRoot, OtherRoot>>
    /\ ~dry_run
    /\ now = 0
    /\ Status(FilmPath) = "gone"
    /\ Join(FilmPath, <<VideoFile>>) \in fs
    /\ Status(NestedPath) = "active"
    /\ NestedPath \in fs

(***************************************************************************)
(* C26.  Rows of the catalog are kept.  A row is identified by its path,   *)
(* the conflict target of the only INSERT INTO media.                      *)
(***************************************************************************)
\* C26: no step removes a row of the catalog or gives a row another path, and
\* an item that the purge of a cycle takes out of the trash is still in the
\* catalog, with status gone
C26_RowsNeverDeleted ==
    /\ [][Items \subseteq Items']_vars
    /\ [](\A rd \in ReadOutcomes, order \in Orders, del \in Deletions :
             LET s3 == reconcile_before_purge(Cur, rd)
                 s4 == cleanup_expired(s3, order, del)
             IN  /\ Items \subseteq DOMAIN s3.media
                 /\ DOMAIN s3.media \subseteq DOMAIN s4.media
                 /\ \A id \in list_expired_trash(s3.media, now, grace_period_days) :
                        s4.media[id].status # "trashed" => s4.media[id].status = "gone")

\* the season was trashed and purged after its grace period: its files are
\* nowhere on the disk and its row is in the catalog with status gone
C26_PurgedSeasonStillCatalogued ==
    /\ ~dry_run
    /\ now = MaxTime
    /\ SeasonPath \in Items
    /\ Status(SeasonPath) = "gone"
    /\ media[SeasonPath].trashed_at = Some(0)
    /\ Under(fs, SeasonPath) = {}
    /\ Under(fs, <<"media_trash">>) = {<<"media_trash">>}

(***************************************************************************)
(* C27.  What the listing of a user contains.                              *)
(***************************************************************************)
VisibleTo(u, id) ==
    \/ Status(id) = "active"
    \/ (Status(id) = "permanent" /\ get_owner(owner, id) = Some(u))

\* C27 as stated: the listing of a user contains an item exactly when the item
\* is active, or is permanent and owned by that user
C27_ListedIffVisible ==
    \A u \in users, show_marked \in BOOLEAN, id \in Items :
       id \in list_movies(media, owner, marks, u, show_marked) <=> VisibleTo(u, id)

\* C27: the listing of a user contains an item exactly when the item is active
\* or is permanent and owned by that user, and, unless the page is asked to
\* show marked items, the user has not marked it while it is active; a
\* permanent item is never listed for a non-owner, a trashed or gone item for
\* nobody
C27_ListedIffVisibleAndNotHidden ==
    \A u \in users, show_marked \in BOOLEAN :
       LET listing == list_movies(media, owner, marks, u, show_marked)
       IN  /\ listing \subseteq Items
           /\ \A id \in Items :
                 /\ id \in listing <=>
                       /\ VisibleTo(u, id)
                       /\ show_marked \/ ~(Status(id) = "active" /\ <<u, id>> \in marks)
                 /\ (Status(id) = "permanent" /\ get_owner(owner, id) # Some(u))
                       => id \notin listing
                 /\ Status(id) \in {"trashed", "gone"} => id \notin listing

\* the season is permanent and owned by the admin, and the second user has
\* marked the active show directory, which the default page of that user omits
C27_MarkedItemOmitted ==
    /\ users = UserIds
    /\ IsPermanent(SeasonPath)
    /\ get_owner(owner, SeasonPath) = Some(AdminId)
    /\ ShowPath \in Items
    /\ Status(ShowPath) = "active"
    /\ marks = {<<2, ShowPath>>}
    /\ list_movies(media, owner, marks, 2, FALSE) = {}
    /\ list_movies(media, owner, marks, 2, TRUE) = {ShowPath}
    /\ list_movies(media, owner, marks, AdminId, FALSE) = {ShowPath, SeasonPath}

(***************************************************************************)
(* C28.  An item whose path is under no configured root.                   *)
(***************************************************************************)
Unresolved(id) == id \in Items /\ ~Resolves(id)

\* C28: when no configured root is a prefix of an item's path, the operation
\* that needed the resolution reports an error for the item and leaves its
\* status as it was: the quorum trash, the rescue, persist and unpersist
\* answer with the error, and a reconciliation cycle that meets such an item
\* in the trash reports an error as well instead of passing over it
C28_UnresolvedPathReported ==
    [][/\ \A u \in UserIds, id \in RootIds :
             /\ (Unresolved(id) /\ Status(id) = "active" /\ mark_movie(u, id))
                   => (response' = "internal" /\ media'[id] = media[id])
             /\ (Unresolved(id) /\ Status(id) = "active" /\ persist_movie(u, id))
                   => (response' = "internal" /\ media'[id] = media[id])
             /\ (Unresolved(id) /\ Status(id) = "permanent" /\ unpersist_movie(u, id))
                   => (response' \in {"internal", "forbidden"} /\ media'[id] = media[id])
             /\ (Unresolved(id) /\ rescue_item(id))
                   => (response' = "internal" /\ media'[id] = media[id])
       /\ \A rd \in ReadOutcomes, order \in RootOrders, del \in RootDeletions :
             ((\E id \in RootIds : Unresolved(id) /\ Status(id) = "trashed")
              /\ Reconcile(rd, order, del))
             => /\ response' = "internal"
                /\ \A id \in RootIds :
                      (Unresolved(id) /\ Status(id) = "trashed") => media'[id] = media[id]]_vars

\* only /other is configured; a cycle has purged the film after its grace
\* period and has passed over the nested item, which is as long in the trash,
\* with its copy still on the disk, and no error is recorded
C28_ExpiredItemPassedOver ==
    /\ media_dirs = <<OtherRoot>>
    /\ ~dry_run
    /\ now = MaxTime
    /\ response = "none"
    /\ Status(FilmPath) = "gone"
    /\ media[FilmPath].trashed_at = Some(0)
    /\ Under(fs, <<"other_trash">>) = {<<"other_trash">>}
    /\ Unresolved(NestedPath)
    /\ Status(NestedPath) = "trashed"
    /\ media[NestedPath].trashed_at = Some(0)
    /\ <<"media", "extra_trash", "X">> \in fs

(***************************************************************************)
(* C29.  upsert, on the table with ids, sizes and last_seen.               *)
(***************************************************************************)
Sizes == {0, 1}
LastRowids == {0} \cup {rowid(p) : p \in MediaIds}
RowOf(t, p) == CHOOSE r \in t : r.path = p

\* C29: upsert of a path that is not in the catalog adds one row, active, and
\* returns its id; upsert of a known path adds no row, returns the id of the
\* existing row, sets its size and last_seen, and makes it active if it was
\* gone; no other row changes
C29_UpsertInsertsOrRefreshes ==
    \A p \in MediaIds, size \in Sizes, last \in LastRowids :
       LET t == TableOf(media)
           r == upsert_with_id(t, p, size, now, last)
           row == RowOf(r.table, p)
       IN  /\ {x \in r.table : x.path # p} = {x \in t : x.path # p}
           /\ Cardinality({x \in r.table : x.path = p}) = 1
           /\ row.size_bytes = size /\ row.last_seen = now /\ row.id = r.id
           /\ p \notin Items =>
                 /\ Cardinality(r.table) = Cardinality(t) + 1
                 /\ row.status = "active"
                 /\ \A x \in t : x.id # r.id
           /\ p \in Items =>
                 /\ Cardinality(r.table) = Cardinality(t)
                 /\ r.id = RowOf(t, p).id
                 /\ Status(p) = "gone" => row.status = "active"

\* both paths are catalogued and the season is gone: rediscovering it on a
\* connection whose latest INSERT was the show's returns the id of the show
C29_RediscoveredSeasonGetsIdOfShow ==
    /\ Items = MediaIds
    /\ Status(SeasonPath) = "gone"
    /\ Status(ShowPath) = "active"
    /\ LET r == upsert_with_id(TableOf(media), SeasonPath, 1, now, rowid(ShowPath))
       IN  /\ r.id = rowid(ShowPath)
           /\ r.id # RowOf(r.table, SeasonPath).id
           /\ RowOf(r.table, SeasonPath).status = "active"

(***************************************************************************)
(* C30.  The steps of a cycle are attempted one after the other whatever   *)
(* the outcome of the steps before them.                                   *)
(***************************************************************************)
\* what step k does to the catalog, the disk and the sessions when it succeeds
StepDone(k, st, rd, order, del) ==
    CASE k = "scan" -> [st EXCEPT !.s = full_scan(@, rd)]
      [] k = "marks" -> [st EXCEPT !.s.marks = cleanup_gone_marks(st.s.media, @)]
      [] k = "missing" -> [st EXCEPT !.s = cleanup_missing_trash(@)]
      [] k = "purge" -> [st EXCEPT !.s = cleanup_expired(@, order, del)]
      [] k = "session" -> [st EXCEPT !.ss = session_cleanup_expired(@, now)]

\* what it has done when it fails
StepFailed(k, st, rd) ==
    IF k = "scan" THEN [st EXCEPT !.s = scan_roots(@, media_dirs, rd, 1).s] ELSE st

RECURSIVE StepsFrom(_, _, _, _, _, _)
StepsFrom(i, st, rd, order, del, fail) ==
    IF i > Len(Steps) THEN st
    ELSE StepsFrom(i + 1,
                   IF fail[Steps[i]] THEN StepFailed(Steps[i], st, rd)
                   ELSE StepDone(Steps[i], st, rd, order, del),
                   rd, order, del, fail)

ExpiredSessions(ss) == {x \in ss : x.expires_at <= now}

\* C30: in a cycle each of the five steps (scan, gone-mark cleanup,
\* missing-trash check, purge, session expiry) is attempted in that order on
\* what the steps before it left, whether or not one of them failed; in
\* particular a cycle whose failed step is not the session expiry leaves no
\* expired session; and cycles go on after a failed one: an expired session is
\* eventually deleted
C30_StepsIndependent ==
    /\ [][\A rd \in ReadOutcomes, order \in Orders, fail \in StepFailures :
             (response' \in {"none", "step_failed"} /\ Cycle(rd, order, AllDeleted, fail)) =>
                LET end == StepsFrom(1, [s |-> Cur, ss |-> sessions], rd, order, AllDeleted, fail)
                IN  /\ users' = end.s.users /\ media' = end.s.media /\ marks' = end.s.marks
                    /\ owner' = end.s.owner /\ fs' = end.s.fs /\ sessions' = end.ss
                    /\ ~fail["session"] => ExpiredSessions(sessions') = {}
                    /\ ~fail["purge"] =>
                          \A id \in list_expired_trash(media', now, grace_period_days) :
                             TrashLocation(media_dirs, id) = None]_vars
    /\ (ExpiredSessions(sessions) # {}) ~> (ExpiredSessions(sessions) = {})

\* a cycle with a failed step has run after the grace period: the season is
\* purged, only the session of the last day is left, and the error is logged
C30_FailedCycleStillPurged ==
    /\ response = "step_failed"
    /\ ~dry_run
    /\ now = MaxTime
    /\ Status(SeasonPath) = "gone"
    /\ media[SeasonPath].trashed_at = Some(0)
    /\ Under(fs, SeasonPath) = {}
    /\ Under(fs, <<"media_trash", "Show", "Season 1">>) = {}
    /\ sessions = {[user_id |-> AdminId, expires_at |-> MaxTime + session_ttl_days]}

\* C31: the consumer's handling of a Remove event for a path sets the item
\* with exactly that path to gone when that item is active, and changes
\* nothing else: no file is moved, items that are trashed, permanent or gone
\* and items with other paths keep their rows, and users, marks and owners
\* stay as they were
C31_RemoveEventOnlyMarksActivePathGone ==
    [][(/\ queue # <<>>
        /\ response' = "watch_remove"
        /\ Consume) =>
          LET p == Head(queue).path
          IN  /\ fs' = fs
              /\ users' = users /\ marks' = marks /\ owner' = owner
              /\ DOMAIN media' = Items
              /\ \A q \in Items :
                    media'[q] = IF q = p /\ Status(q) = "active"
                                THEN [media[q] EXCEPT !.status = "gone"]
                                ELSE media[q]]_vars

\* the show directory was removed by hand while its season lay trashed by a
\* dry run: the event set the show to gone and left the season trashed
C31_ShowGoneSeasonStillTrashed ==
    /\ response = "watch_remove"
    /\ ShowPath \in Items /\ Status(ShowPath) = "gone"
    /\ SeasonPath \in Items /\ Status(SeasonPath) = "trashed"
    /\ ShowPath \notin fs

QueuedEvents == {queue[i].n : i \in 1..Len(queue)}

\* C32: every event the callback accepts for a directory under a watched
\* root is appended to the channel (the callback waits while the channel is
\* full, nothing is dropped); the channel changes only by such an append at
\* its back or by the consumer taking and handling its head, so events are
\* handled once and in the order they were sent; and every event in the
\* channel is eventually received by the consumer
C32_EventsHandledOnceInOrder ==
    /\ [][/\ \/ ~(ext' # ext /\ Watched(ShowPath) /\ (ShowPath \in fs) # (ShowPath \in fs'))
              \/ /\ Len(queue) < MaxQueue
                 /\ queue' = Append(queue,
                        [kind |-> IF ShowPath \in fs THEN "remove" ELSE "create",
                         path |-> ShowPath, n |-> ext + 1])
           /\ \/ queue' = queue
              \/ /\ Len(queue) < MaxQueue
                 /\ ext' = ext + 1
                 /\ \E e \in [kind : {"create", "remove"}, path : {ShowPath}, n : {ext + 1}] :
                       queue' = Append(queue, e)
              \/ /\ queue # <<>>
                 /\ queue' = Tail(queue)
                 /\ response' = IF Head(queue).kind = "create"
                                 THEN "watch_create" ELSE "watch_remove"
                 /\ Consume
           /\ QueuedEvents' \subseteq QueuedEvents \cup {ext + 1}]_vars
    /\ \A n \in 1..MaxExt : (n \in QueuedEvents) ~> (n \notin QueuedEvents)

\* the consumer took the first event from a full channel, and the event
\* sent after it, for the directory copied back, waits at the head
C32_FirstOfFullChannelHandled ==
    /\ response = "watch_remove"
    /\ Len(queue) = MaxQueue - 1
    /\ Head(queue).kind = "create"
    /\ Head(queue).n = 2

\* C33: after every completed operation no active item carries a mark of
\* every current user
C33_NoQuorumOnActiveItem ==
    \A id \in Items :
        Status(id) = "active" => ~all_users_marked(users, marks, id)

\* the season a dry run had trashed at quorum was found again by the scan:
\* it is active with the mark of the only user still on it
C33_RescannedSeasonActiveAtQuorum ==
    /\ dry_run
    /\ users = {AdminId}
    /\ Status(SeasonPath) = "active"
    /\ media[SeasonPath].trashed_at # None
    /\ <<AdminId, SeasonPath>> \in marks

\* C34: no step takes an item from active to trashed unless some user has a
\* mark on it (before the step, or recorded by the step itself)
C34_TrashedOnlyOnMarks ==
    [][\A id \in Items :
          (/\ Status(id) = "active"
           /\ id \in DOMAIN media'
           /\ media'[id].status = "trashed") =>
              MarksOn(marks, id) \cup MarksOn(marks', id) # {}]_vars

\* the only user deleted their account: the season nobody had marked is
\* in the trash
C34_UnmarkedSeasonTrashedWithLastUser ==
    /\ response = "user_deleted"
    /\ users = {}
    /\ marks = {}
    /\ owner = <<>>
    /\ Status(SeasonPath) = "trashed"
    /\ media[SeasonPath].trashed_at = Some(now)

\* C35: a full scan leaves every trashed or permanent item as it was: its
\* status, trashed_at, owner and marks are unchanged, also when the scan
\* finds a directory at the item's original path
C35_ScanKeepsTrashedAndPermanent ==
    [][\A rd \in ReadOutcomes :
          FullScan(rd) =>
              \A id \in Items :
                  Status(id) \in {"trashed", "permanent"} =>
                      /\ id \in DOMAIN media' /\ media'[id] = media[id]
                      /\ get_owner(owner', id) = get_owner(owner, id)
                      /\ MarksOn(marks', id) = MarksOn(marks, id)]_vars

\* the season a dry run had made permanent was found at its original path
\* by the scan: it is active, with its owner still recorded
C35_PermanentSeasonReactivated ==
    /\ dry_run
    /\ SeasonPath \in fs
    /\ Status(SeasonPath) = "active"
    /\ get_owner(owner, SeasonPath) = Some(AdminId)

\* C36: a rescue of an item that is active, permanent or gone leaves the
\* item's status, trashed_at, owner record and marks unchanged, with dry-run
\* on or off
C36_RescueOnlyOfTrashed ==
    [][\A id \in Items :
          (Status(id) # "trashed" /\ rescue_item(id)) =>
              /\ media'[id] = media[id]
              /\ get_owner(owner', id) = get_owner(owner, id)
              /\ MarksOn(marks', id) = MarksOn(marks, id)]_vars

\* a rescue in a dry run was invoked on the permanent season: the season
\* is active, its owner still recorded, its files in the permanent directory
C36_PermanentSeasonRescued ==
    /\ response = "rescued"
    /\ dry_run
    /\ Status(SeasonPath) = "active"
    /\ get_owner(owner, SeasonPath) # None

PlacesOf(id) == {id, TrashLocation(media_dirs, id)[1], PermanentLocation(media_dirs, id)[1]}
\* the item is on disk at the place of its status and at no other of its
\* places; a gone item that had been trashed (purged) is at none of them
Placed(id) ==
    LET here == {l \in PlacesOf(id) : Exists(fs, l)}
    IN  CASE Status(id) = "gone" -> (media[id].trashed_at # None => here = {})
          [] OTHER -> here = LocationOf(media, id)

\* C37: with dry-run off, one root, no change of the disk from outside and
\* no refused move, after every completed operation every item's directory
\* exists at the one place its status names (original path, trash location,
\* permanent location, none once purged) and at no other of these places
C37_OnePlacePerStatus == \A id \in Items : Placed(id)

\* the season is in the trash and the scan has catalogued the show
\* directory it left behind: the show is active at /media/Show while
\* /media_trash/Show, its trash location, exists as well
C37_ShowInLibraryAndTrash ==
    /\ ~dry_run
    /\ ShowPath \in Items /\ Status(ShowPath) = "active"
    /\ Exists(fs, ShowPath)
    /\ Exists(fs, TrashLocation(media_dirs, ShowPath)[1])
    /\ Status(SeasonPath) = "trashed"

FilmTrash == TrashLocation(media_dirs, FilmPath)[1]
FilmPermanent == PermanentLocation(media_dirs, FilmPath)[1]
NoRequest == \A u \in UserIds : Idle(u)

\* C38: whatever the watcher's Remove handling and the scan's mark-gone
\* step did to the row between the move and the status write, the write of
\* the trash request leaves the item trashed and that of the persist
\* request leaves it permanent; a Remove event or a scan that comes after
\* the write does not set it to gone; so once the requests have returned,
\* an item whose files are in the trash is trashed and one whose files are
\* in the permanent directory is permanent
C38_MovedItemNeverEndsGone ==
    /\ [](NoRequest =>
            /\ Exists(fs, FilmTrash) => Status(FilmPath) = "trashed"
            /\ Exists(fs, FilmPermanent) => Status(FilmPath) = "permanent")
    /\ [][/\ \A u \in UserIds :
                /\ TrashSet(u) => media'[FilmPath].status = "trashed"
                /\ PersistSet(u) => media'[FilmPath].status = "permanent"
           /\ (/\ Status(FilmPath) \in {"trashed", "permanent"}
               /\ (Consume \/ \E rd \in ReadOutcomes : FullScan(rd)))
                  => media'[FilmPath].status # "gone"]_vars

\* the trash request has returned after the Remove event of its own move
\* was received and handled: the film is trashed, its files in the trash
C38_TrashedAfterRemoveHandled ==
    /\ ~dry_run
    /\ response = "marked"
    /\ ext = 1 /\ queue = <<>>
    /\ NoRequest
    /\ Exists(fs, FilmTrash)
    /\ Status(FilmPath) = "trashed"

DerivedDirs ==
    UNION {{trash_dir_for_media_dir(media_dirs[i])[1],
            permanent_dir_for_media_dir(media_dirs[i])[1]} : i \in 1..Len(media_dirs)}

\* C39: in every reachable state, under every configuration of roots, no
\* catalogued path is a derived trash or permanent directory of a root or
\* lies inside one
C39_NoDerivedDirectoryCatalogued ==
    \A p \in Items : \A d \in DerivedDirs : ~StartsWith(p, d)

\* with the roots /media and /media/extra the scan of /media has catalogued
\* /media/extra_trash, the trash directory of the nested root, as an
\* active item
C39_TrashOfNestedRootCatalogued ==
    /\ ConfiguredRoots = {MediaRoot, ExtraRoot}
    /\ SiblingOf(ExtraRoot, "_trash") \in Items
    /\ Status(SiblingOf(ExtraRoot, "_trash")) = "active"

\* C40: whenever no request is in flight, every permanent item has a
\* recorded owner who is a current user
C40_OwnerOfPermanentExists ==
    NoRequest =>
        \A id \in Items :
            Status(id) = "permanent" =>
                /\ get_owner(owner, id) # None
                /\ get_owner(owner, id)[1] \in users

\* C40, the handler's part: a delete_user whose forced restore fails leaves
\* the user in place, and one that deletes the user leaves none of the
\* items that user owned permanent or owned
C40_DeleteRestoresFirst ==
    [][\A u \in UserIds, order \in Orders :
          (/\ response' \in {"user_deleted", "internal"}
           /\ u \in users
           /\ DeleteUser(u, order)) =>
              /\ response' = "internal" => users' = users
              /\ response' = "user_deleted" =>
                    /\ u \notin users'
                    /\ \A id \in Items :
                          (Status(id) = "permanent" /\ get_owner(owner, id) = Some(u)) =>
                              /\ media'[id].status # "permanent"
                              /\ get_owner(owner', id) = None]_vars

\* the second user's persist ran between the restores and the deletion of
\* that user's delete_user: the season is permanent, the user is gone, and
\* no request is in flight
C40_PermanentSeasonOfDeletedUser ==
    /\ NoRequest
    /\ users = {AdminId}
    /\ Status(SeasonPath) = "permanent"
    /\ get_owner(owner, SeasonPath) \notin {Some(AdminId)}

====
